---- MODULE Spec2Model ----
(***************************************************************************)
(* Retrieval pipeline of the repository: the FAISS vector store            *)
(* (knowledge/vector_store/faiss_store.py), the embedders                  *)
(* (knowledge/embeddings.py), the chunkers (knowledge/chunkers), the       *)
(* offline build (knowledge/offline_processor.py) and the online retriever *)
(* (knowledge/online_retriever.py).                                        *)
(*                                                                         *)
(* Conventions.  Python lists are TLA+ sequences, so Python position i is  *)
(* TLA+ position i+1.  None is modelled by an absent-flag in a record (or  *)
(* by NoDimension for the optional int).  A method call that raises leaves *)
(* the name of the exception in the status field of `result`.              *)
(* Vector components are small integers: every one is exactly              *)
(* representable as a float32, so astype('float32') keeps its value.       *)
(* A text handed to an embedder is the sequence of its word tokens (word   *)
(* ids, in alphabetical order of the words).                               *)
(***************************************************************************)
EXTENDS Integers, Sequences, FiniteSets, TLC

\* ------------------------------------------------------------------ bounds
MaxDocs == 2
MaxBatch == 1
MaxTopK == 3
MaxTexts == 1
ApiDim == 3
MaxFiles == 2
MaxChunks == 2
MaxTextLen == 4
MaxChunkSize == 3
MaxSemLen == 5
MaxPdfs == 2
MaxPolls == 3

NoDimension == 0
FltMax == 1000000
MaxFeatures == 1000

Dims == {1, 2}
Vals == {0, 1}
Docs == {"doc_a", "doc_b"}
IndexPaths == {"faiss_index.bin"}
DocPaths == {"documents.pkl"}
AbsentPath == "absent"

Vectors(d) == [1..d -> Vals]

\* an (n, d) ndarray: n rows, each of d components
Matrices == UNION {[d : {d}, rows : UNION {[1..n -> Vectors(d)] : n \in 0..MaxBatch}] : d \in Dims}

DocLists == UNION {[1..n -> Docs] : n \in 0..MaxBatch}

\* the calls of add_documents: every batch whose rows and texts agree in number,
\* and for each pair of differing numbers one batch (zero rows, one text repeated)
ZeroMatrices == {m \in Matrices : \A i \in 1..Len(m.rows) : \A j \in 1..m.d : m.rows[i][j] = 0}
AddInputs ==
  {c \in [embeddings : Matrices, docs : DocLists] : Len(c.embeddings.rows) = Len(c.docs)}
  \cup {c \in [embeddings : ZeroMatrices, docs : {dl \in DocLists : \A i \in 1..Len(dl) : dl[i] = "doc_a"}] :
           Len(c.embeddings.rows) # Len(c.docs)}

Min(a, b) == IF a <= b THEN a ELSE b

RECURSIVE SumSeq(_)
SumSeq(s) == IF s = <<>> THEN 0 ELSE Head(s) + SumSeq(Tail(s))

\* ------------------------------------------------------------------- state
VARIABLES
  dimension,   \* FaissVectorStore.dimension (NoDimension for None)
  index,       \* FaissVectorStore.index: [present, d, vecs]
  documents,   \* FaissVectorStore.documents
  inserted,    \* history of a store that was only constructed and added to: the (vector, text) pairs add_documents accepted
  indexFiles,  \* file system: index path -> serialized index
  docFiles,    \* file system: documents path -> pickled list
  saved,       \* history: the store as it was at the last successful save
  result,      \* outcome of the last call on the store
  api_embedder,\* HybridEmbedder.api_embedder is not None
  fitted,      \* SimpleEmbedder.fitted
  vocabulary,  \* SimpleEmbedder.vectorizer: the fitted terms in column order
  served,      \* history: the width each path of HybridEmbedder.embed last returned since the last fit
  embedded,    \* outcome of the last call on an embedder
  pc,              \* OfflineProcessor.process_directory: where the run is
  embedder_type,   \* the embedder_type the OfflineProcessor was built with
  files_to_process,\* number of scanned files; file f is the f-th of the sorted list
  fileIdx,         \* the file the loop of line 105 is at
  all_chunks,
  all_metadata,
  stats,
  produced,        \* history: for every file that gave chunks, the file and its chunks
  run_embeddings,  \* process_directory's embeddings: the matrix embed returned (line 163)
  metaFiles,       \* file system: metadata path -> pickled list
  retval,          \* what process_directory returned
  chunk_pc,        \* a chunker: where its construction and its chunk call are
  text,            \* the text handed to chunk: a sequence of characters
  chunk_size,      \* FixedSizeChunker.chunk_size
  chunk_overlap,   \* FixedSizeChunker.chunk_overlap
  start,           \* FixedSizeChunker.chunk: start
  chunks,          \* the chunks list of the chunk call
  windows,         \* history: [start, end] of every turn of the loop of FixedSizeChunker.chunk
  max_chunk_size,  \* SemanticChunker.max_chunk_size
  min_chunk_size,  \* SemanticChunker.min_chunk_size
  retriever,       \* OnlineRetriever: [status, embedder_type] of its construction
  metadata,        \* OnlineRetriever.metadata
  results,         \* outcome of the last search call on the retriever
  reader,          \* an OnlineRetriever of another process: what its _load_index read so far
  mineru_api_key,  \* os.getenv("MINERU_API_KEY") is set
  pdf_parser,      \* the parser _get_pdf_parser returned for the file being parsed
  parse_pc,        \* ParserFactory.parse_document on a PDF: where the call is
  job,             \* history of the call: the requests made and what the service answered
  parsed,          \* what parse_document returned, one entry per parsed file
  kb,              \* KnowledgeBase: features, solutions, domain_knowledge
  kb_loaded,       \* history: the knowledge base right after _load_knowledge
  kr_documents,    \* KnowledgeRetriever.documents
  kresults,        \* what the last query of the KnowledgeRetriever returned
  earlier          \* history: the first query's result as the caller holds it, and as it was returned

storeVars == <<dimension, index, documents, inserted, indexFiles, docFiles, saved, result>>
embVars == <<api_embedder, fitted, vocabulary, served, embedded>>
offVars == <<pc, embedder_type, files_to_process, fileIdx, all_chunks, all_metadata, stats,
             produced, run_embeddings, metaFiles, retval>>
chunkVars == <<chunk_pc, text, chunk_size, chunk_overlap, start, chunks, windows,
               max_chunk_size, min_chunk_size>>
retrVars == <<retriever, metadata, results, reader>>
pdfVars == <<mineru_api_key, pdf_parser, parse_pc, job, parsed>>
kbVars == <<kb, kb_loaded, kr_documents, kresults, earlier>>
vars == <<dimension, index, documents, inserted, indexFiles, docFiles, saved, result,
          api_embedder, fitted, vocabulary, served, embedded,
          pc, embedder_type, files_to_process, fileIdx, all_chunks, all_metadata, stats,
          produced, run_embeddings, metaFiles, retval,
          chunk_pc, text, chunk_size, chunk_overlap, start, chunks, windows,
          max_chunk_size, min_chunk_size,
          retriever, metadata, results, reader,
          mineru_api_key, pdf_parser, parse_pc, job, parsed,
          kb, kb_loaded, kr_documents, kresults, earlier>>

NoIndex == [present |-> FALSE, d |-> 0, vecs |-> <<>>]
NoFile == [exists |-> FALSE, d |-> 0, ntotal |-> 0, xb |-> <<>>]
NoDocFile == [exists |-> FALSE, docs |-> <<>>]
NoSave == [done |-> FALSE, dimension |-> NoDimension, index |-> NoIndex, documents |-> <<>>,
           index_path |-> AbsentPath, documents_path |-> AbsentPath]

\* faiss.IndexFlatL2(dimension)
CreateIndex(d) == [present |-> TRUE, d |-> d, vecs |-> <<>>]

\* ndarray.astype('float32') on one value
Float32(x) == x

AsFloat32(rows) == [i \in 1..Len(rows) |-> [j \in 1..Len(rows[i]) |-> Float32(rows[i][j])]]

Ntotal(ix) == Len(ix.vecs)

\* ------------------------------------------------------------ construction
\* FaissVectorStore.__init__(dimension)
StoreInit(dim) ==
  /\ dimension' = dim
  /\ index' = IF dim # NoDimension THEN CreateIndex(dim) ELSE NoIndex
  /\ documents' = <<>>
  /\ inserted' = [on |-> TRUE, pairs |-> <<>>]

New ==
  \E dim \in Dims \cup {NoDimension} :
    /\ StoreInit(dim)
    /\ result' = [op |-> "init", status |-> "ok", value |-> <<>>, arg |-> <<>>, k |-> 0]
    /\ UNCHANGED <<indexFiles, docFiles, saved>>
    /\ UNCHANGED embVars
    /\ UNCHANGED offVars /\ UNCHANGED chunkVars /\ UNCHANGED pdfVars /\ UNCHANGED kbVars /\ UNCHANGED retrVars

\* ----------------------------------------------------------- add_documents
\* the index after line 45-46 of add_documents
EnsureIndex(ix, embeddings) == IF ~ix.present THEN CreateIndex(embeddings.d) ELSE ix

\* add_documents without the row-count test of line 48
AddStatus_NoRowCheck(ix, embeddings, docs) ==
  IF embeddings.d # ix.d THEN "AssertionError" ELSE "ok"

\* add_documents on an index that accepts rows of any width
AddStatus_NoDimCheck(ix, embeddings, docs) ==
  IF Len(embeddings.rows) # Len(docs) THEN "ValueError" ELSE "ok"

\* the exception add_documents ends with: line 48-49, then the width test of index.add
AddStatus(ix, embeddings, docs) ==
  IF Len(embeddings.rows) # Len(docs) THEN "ValueError"
  ELSE IF embeddings.d # ix.d THEN "AssertionError"
  ELSE "ok"

AddDocuments(embeddings, docs) ==
  LET ix == EnsureIndex(index, embeddings)
      st == AddStatus(ix, embeddings, docs)
  IN /\ st = "ok" => /\ Len(documents) + Len(docs) <= MaxDocs
                     /\ Ntotal(ix) + Len(embeddings.rows) <= MaxDocs
     /\ result' = [op |-> "add", status |-> st, value |-> <<>>, arg |-> <<embeddings.d>>, k |-> 0]
     /\ IF st = "ok"
        THEN /\ index' = [ix EXCEPT !.vecs = ix.vecs \o AsFloat32(embeddings.rows)]
             /\ documents' = documents \o docs
             /\ inserted' = IF inserted.on
                             THEN [inserted EXCEPT !.pairs = @ \o
                                     [i \in 1..Min(Len(embeddings.rows), Len(docs)) |->
                                        [vec |-> embeddings.rows[i], text |-> docs[i]]]]
                             ELSE inserted
        ELSE /\ index' = ix
             /\ UNCHANGED <<documents, inserted>>
     /\ UNCHANGED <<dimension, indexFiles, docFiles, saved>>
     /\ UNCHANGED embVars

Add == \E c \in AddInputs : AddDocuments(c.embeddings, c.docs) /\ UNCHANGED offVars /\ UNCHANGED chunkVars /\ UNCHANGED pdfVars /\ UNCHANGED kbVars /\ UNCHANGED retrVars

\* ------------------------------------------------------------------ search
\* squared L2 distance, as IndexFlatL2 reports it
Dist(u, v) == SumSeq([i \in 1..Len(u) |-> (u[i] - v[i]) * (u[i] - v[i])])

\* the m farthest instead of the m nearest
Nearest_Farthest(ix, q, m) ==
  {s \in [1..m -> 0..(Ntotal(ix) - 1)] :
     /\ \A i, j \in 1..m : i < j =>
          /\ s[i] # s[j]
          /\ Dist(q, ix.vecs[s[i] + 1]) >= Dist(q, ix.vecs[s[j] + 1])
     /\ \A i \in 1..m : \A o \in 0..(Ntotal(ix) - 1) :
          (\A j \in 1..m : s[j] # o) => Dist(q, ix.vecs[s[i] + 1]) >= Dist(q, ix.vecs[o + 1])}

\* the labels faiss may return for the m nearest of the stored vectors: m
\* distinct 0-based positions by non-decreasing distance, none of the others
\* nearer than the last; the order among equal distances is faiss's choice
Nearest(ix, q, m) ==
  {s \in [1..m -> 0..(Ntotal(ix) - 1)] :
     /\ \A i, j \in 1..m : i < j =>
          /\ s[i] # s[j]
          /\ Dist(q, ix.vecs[s[i] + 1]) <= Dist(q, ix.vecs[s[j] + 1])
     /\ \A i \in 1..m : \A o \in 0..(Ntotal(ix) - 1) :
          (\A j \in 1..m : s[j] # o) => Dist(q, ix.vecs[s[i] + 1]) <= Dist(q, ix.vecs[o + 1])}

\* IndexFlatL2.search(q, k): k (distance, label) pairs; when fewer than k
\* vectors are stored the tail is filled with label -1 and the largest float
IndexSearch(ix, q, k) ==
  LET m == Min(k, Ntotal(ix))
  IN {[i \in 1..k |-> IF i <= m THEN [dist |-> Dist(q, ix.vecs[s[i] + 1]), idx |-> s[i]]
                               ELSE [dist |-> FltMax, idx |-> 0 - 1]] : s \in Nearest(ix, q, m)}

\* a score that grows with the distance
Similarity_Growing(dist) == <<1 + dist, 1>>

\* 1.0 / (1.0 + float(dist)) as the fraction <<numerator, denominator>>
Similarity(dist) == <<1, 1 + dist>>

\* self.documents[idx], Python indexing (a negative idx counts from the end)
DocAt(docs, idx) == IF idx >= 0 THEN docs[idx + 1] ELSE docs[Len(docs) + 1 + idx]

\* the loop of lines 86-91 over zip(distances[0], indices[0])
RECURSIVE BuildResults(_, _)
BuildResults(hits, docs) ==
  IF hits = <<>> THEN <<>>
  ELSE LET h == Head(hits)
       IN (IF h.idx < Len(docs)
           THEN <<[text |-> DocAt(docs, h.idx), sim |-> Similarity(h.dist), idx |-> h.idx]>>
           ELSE <<>>) \o BuildResults(Tail(hits), docs)

\* the early return of line 71 taken only when there is no index object
IsEmptyStore_IndexOnly(ix, docs) == ~ix.present

\* the test of line 71
IsEmptyStore(ix, docs) == ~ix.present \/ Len(docs) = 0

SearchStore(query, top_k) ==
  /\ IF IsEmptyStore(index, documents)
     THEN result' = [op |-> "search", status |-> "ok", value |-> <<>>, arg |-> query, k |-> top_k]
     ELSE LET q == [j \in 1..Len(query) |-> Float32(query[j])]
              k == Min(top_k, Len(documents))
          IN IF Len(q) # index.d
             THEN result' = [op |-> "search", status |-> "AssertionError", value |-> <<>>,
                             arg |-> query, k |-> top_k]
             ELSE IF k <= 0
             THEN \E st \in {"AssertionError", "ok"} :
                    result' = [op |-> "search", status |-> st, value |-> <<>>,
                               arg |-> query, k |-> top_k]
             ELSE \E hits \in IndexSearch(index, q, k) :
                    result' = [op |-> "search", status |-> "ok",
                               value |-> BuildResults(hits, documents),
                               arg |-> query, k |-> top_k]
  /\ UNCHANGED <<dimension, index, documents, inserted, indexFiles, docFiles, saved>>
  /\ UNCHANGED embVars

Search ==
  \E d \in Dims : \E query \in Vectors(d) : \E top_k \in 0..MaxTopK :
    SearchStore(query, top_k) /\ UNCHANGED offVars /\ UNCHANGED chunkVars /\ UNCHANGED pdfVars /\ UNCHANGED kbVars /\ UNCHANGED retrVars

\* --------------------------------------------------------------- save/load
RECURSIVE Flatten(_)
Flatten(rows) == IF rows = <<>> THEN <<>> ELSE Head(rows) \o Flatten(Tail(rows))

\* faiss.write_index of an IndexFlat: header d, ntotal and the flat array xb
WriteIndex(ix) == [exists |-> TRUE, d |-> ix.d, ntotal |-> Ntotal(ix), xb |-> Flatten(ix.vecs)]

\* faiss.read_index
ReadIndex(f) ==
  [present |-> TRUE, d |-> f.d,
   vecs |-> [i \in 1..f.ntotal |-> [j \in 1..f.d |-> f.xb[(i - 1) * f.d + j]]]]

SaveStore(index_path, documents_path) ==
  IF ~index.present
  THEN /\ result' = [op |-> "save", status |-> "ValueError", value |-> <<>>, arg |-> <<>>, k |-> 0]
       /\ UNCHANGED <<dimension, index, documents, inserted, indexFiles, docFiles, saved>>
  ELSE /\ indexFiles' = [indexFiles EXCEPT ![index_path] = WriteIndex(index)]
       /\ docFiles' = [docFiles EXCEPT ![documents_path] = [exists |-> TRUE, docs |-> documents]]
       /\ saved' = [done |-> TRUE, dimension |-> dimension, index |-> index,
                    documents |-> documents,
                    index_path |-> index_path, documents_path |-> documents_path]
       /\ result' = [op |-> "save", status |-> "ok", value |-> <<>>, arg |-> <<>>, k |-> 0]
       /\ UNCHANGED <<dimension, index, documents, inserted>>

Save ==
  \E ip \in IndexPaths, dp \in DocPaths :
    SaveStore(ip, dp) /\ UNCHANGED embVars /\ UNCHANGED offVars /\ UNCHANGED chunkVars /\ UNCHANGED pdfVars /\ UNCHANGED kbVars /\ UNCHANGED retrVars

IndexFileExists(p) == p \in DOMAIN indexFiles /\ indexFiles[p].exists
DocFileExists(p) == p \in DOMAIN docFiles /\ docFiles[p].exists

\* a store as FaissVectorStore() leaves it
IsFresh == ~index.present /\ documents = <<>> /\ dimension = NoDimension

LoadStore(index_path, documents_path) ==
  IF ~IndexFileExists(index_path)
  THEN /\ result' = [op |-> "load", status |-> "FileNotFoundError", value |-> <<>>,
                     arg |-> <<>>, k |-> 0]
       /\ UNCHANGED <<dimension, index, documents, inserted, indexFiles, docFiles, saved>>
  ELSE /\ index' = ReadIndex(indexFiles[index_path])
       /\ dimension' = ReadIndex(indexFiles[index_path]).d
       /\ IF ~DocFileExists(documents_path)
          THEN /\ result' = [op |-> "load", status |-> "FileNotFoundError", value |-> <<>>,
                             arg |-> <<>>, k |-> 0]
               /\ UNCHANGED documents
          ELSE /\ documents' = docFiles[documents_path].docs
               /\ result' = [op |-> "load", status |-> "ok", value |-> <<>>,
                             arg |-> <<IsFresh>>, k |-> 0]
       /\ inserted' = [on |-> FALSE, pairs |-> <<>>]
       /\ UNCHANGED <<indexFiles, docFiles, saved>>

Load ==
  \E ip \in IndexPaths \cup {AbsentPath}, dp \in DocPaths :
    LoadStore(ip, dp) /\ UNCHANGED embVars /\ UNCHANGED offVars /\ UNCHANGED chunkVars /\ UNCHANGED pdfVars /\ UNCHANGED kbVars /\ UNCHANGED retrVars

\* load with any pair of paths, the documents path of a file that is not there
\* included
LoadAnyPath ==
  \E ip \in IndexPaths \cup {AbsentPath}, dp \in DocPaths \cup {AbsentPath} :
    LoadStore(ip, dp) /\ UNCHANGED embVars /\ UNCHANGED offVars /\ UNCHANGED chunkVars /\ UNCHANGED pdfVars /\ UNCHANGED kbVars /\ UNCHANGED retrVars

\* ---------------------------------------------------------------- embedders
Words == {1, 2}

\* a text, as the word tokens the vectorizer's analyzer finds in it: none, one or two
Texts == UNION {[1..n -> Words] : n \in {0, 1, 2}}

TextLists == UNION {[1..n -> Texts] : n \in 0..MaxTexts}

\* the argument of embed: one string, or a list of at least one string
EmbedInputs ==
  {[str |-> TRUE, texts |-> <<t>>] : t \in Texts}
  \cup {[str |-> FALSE, texts |-> l] : l \in {l \in TextLists : Len(l) >= 1}}

\* ngram_range=(1, 2): the 1-grams and 2-grams of a text
Terms(t) ==
  {<<t[i]>> : i \in 1..Len(t)} \cup {<<t[i], t[i + 1]>> : i \in 1..(Len(t) - 1)}

\* occurrences of a term in a text
Count(t, term) ==
  Cardinality({i \in 1..(Len(t) - Len(term) + 1) : SubSeq(t, i, i + Len(term) - 1) = term})

\* order of the columns: the terms sorted as strings
TermLeq(a, b) ==
  \/ a[1] < b[1]
  \/ a[1] = b[1] /\ Len(a) = 1
  \/ a[1] = b[1] /\ Len(a) = 2 /\ Len(b) = 2 /\ a[2] <= b[2]

RECURSIVE SortTerms(_)
SortTerms(S) ==
  IF S = {} THEN <<>>
  ELSE LET m == CHOOSE x \in S : \A y \in S : TermLeq(x, y)
       IN <<m>> \o SortTerms(S \ {m})

CorpusTerms(corpus) == UNION {Terms(corpus[i]) : i \in 1..Len(corpus)}

CorpusCount(corpus, term) == SumSeq([i \in 1..Len(corpus) |-> Count(corpus[i], term)])

\* TfidfVectorizer(max_features, ngram_range=(1, 2), min_df=1).fit: the
\* vocabularies it may keep, at most max_features terms, the most frequent first
FitVocabularies(corpus, max_features) ==
  LET all == CorpusTerms(corpus)
  IN IF Cardinality(all) <= max_features THEN {all}
     ELSE {S \in SUBSET all :
             /\ Cardinality(S) = max_features
             /\ \A x \in S : \A y \in all \ S : CorpusCount(corpus, x) >= CorpusCount(corpus, y)}

\* vectorizer.transform(texts).toarray(): one row per text, one column per
\* fitted term; an entry is non-zero exactly when the term occurs in the text
\* (the term's count here; the idf weight and the row norm rescale it)
Transform(vocab, texts) ==
  [i \in 1..Len(texts) |-> [j \in 1..Len(vocab) |-> Count(texts[i], vocab[j])]]

NoEmbedded == [op |-> "init", status |-> "ok", path |-> "none", api |-> "none",
               rows |-> <<>>, d |-> 0, texts |-> <<>>]

NoServed == [api |-> 0, simple |-> 0]

\* a fit that marks the embedder trained whatever the corpus
FitStatus_Always(corpus) == "ok"

\* SimpleEmbedder.fit: the exception it ends with (line 61-62, then the
\* vectorizer's own refusal of a corpus without any term)
FitStatus(corpus) ==
  IF corpus = <<>> THEN "ValueError"
  ELSE IF CorpusTerms(corpus) = {} THEN "ValueError"
  ELSE "ok"

\* SimpleEmbedder.fit(corpus); HybridEmbedder.fit(corpus) is this call on its
\* simple_embedder
FitCall(corpus) ==
  LET st == FitStatus(corpus)
  IN /\ embedded' = [op |-> "fit", status |-> st, path |-> "none", api |-> "none",
                     rows |-> <<>>, d |-> 0, texts |-> corpus]
     /\ IF st = "ok"
        THEN /\ fitted' = TRUE
             /\ \E V \in FitVocabularies(corpus, MaxFeatures) : vocabulary' = SortTerms(V)
             /\ served' = NoServed
        ELSE UNCHANGED <<fitted, vocabulary, served>>
     /\ UNCHANGED api_embedder

Fit == \E corpus \in TextLists : FitCall(corpus) /\ UNCHANGED storeVars /\ UNCHANGED offVars /\ UNCHANGED chunkVars /\ UNCHANGED pdfVars /\ UNCHANGED kbVars /\ UNCHANGED retrVars

\* SimpleEmbedder.embed(texts): status, rows and width
SimpleEmbedOutcome(isFitted, vocab, texts) ==
  IF ~isFitted
  THEN [status |-> "RuntimeError", rows |-> <<>>, d |-> 0]
  ELSE [status |-> "ok", rows |-> Transform(vocab, texts), d |-> Len(vocab)]

SimpleEmbed ==
  \E in \in EmbedInputs :
    LET out == SimpleEmbedOutcome(fitted, vocabulary, in.texts)
    IN /\ embedded' = [op |-> "embed", status |-> out.status, path |-> "simple", api |-> "none",
                       rows |-> out.rows, d |-> out.d, texts |-> in.texts]
       /\ UNCHANGED <<api_embedder, fitted, vocabulary, served>>
       /\ UNCHANGED storeVars
       /\ UNCHANGED offVars /\ UNCHANGED chunkVars /\ UNCHANGED pdfVars /\ UNCHANGED kbVars /\ UNCHANGED retrVars

\* the remote model's vector for one text: a fixed function of the text, of
\* the model's own width (its values are the service's business)
ApiVector(t) == [j \in 1..ApiDim |-> IF j <= Len(t) THEN t[j] ELSE 0]

\* APIEmbedder.embed(texts): the service answers with one vector per text, in
\* order, or the call fails and RuntimeError is raised
ApiEmbedOutcomes(texts) ==
  {[status |-> "RuntimeError", rows |-> <<>>, d |-> 0],
   [status |-> "ok", rows |-> [i \in 1..Len(texts) |-> ApiVector(texts[i])], d |-> ApiDim]}

\* HybridEmbedder.embed that lets the remote failure through
HybridOutcome_Reraise(hasApi, apiOut, simpleOut) ==
  IF hasApi THEN [out |-> apiOut, path |-> "api"] ELSE [out |-> simpleOut, path |-> "simple"]

\* HybridEmbedder.embed: lines 194-200
HybridOutcome(hasApi, apiOut, simpleOut) ==
  IF hasApi /\ apiOut.status = "ok"
  THEN [out |-> apiOut, path |-> "api"]
  ELSE [out |-> simpleOut, path |-> "simple"]

HybridEmbed ==
  \E in \in EmbedInputs : \E apiOut \in ApiEmbedOutcomes(in.texts) :
    LET h == HybridOutcome(api_embedder, apiOut,
                           SimpleEmbedOutcome(fitted, vocabulary, in.texts))
    IN /\ api_embedder \/ apiOut.status # "ok"
       /\ embedded' = [op |-> "hybrid_embed", status |-> h.out.status, path |-> h.path,
                       api |-> IF ~api_embedder THEN "absent"
                               ELSE IF apiOut.status = "ok" THEN "ok" ELSE "failed",
                       rows |-> h.out.rows, d |-> h.out.d, texts |-> in.texts]
       /\ served' = IF h.out.status = "ok" THEN [served EXCEPT ![h.path] = h.out.d] ELSE served
       /\ UNCHANGED <<api_embedder, fitted, vocabulary>>
       /\ UNCHANGED storeVars
       /\ UNCHANGED offVars /\ UNCHANGED chunkVars /\ UNCHANGED pdfVars /\ UNCHANGED kbVars /\ UNCHANGED retrVars

\* -------------------------------------------------------- offline processor
MetaPaths == {"metadata.pkl"}
IndexPath == "faiss_index.bin"
DocsPath == "documents.pkl"
MetadataPath == "metadata.pkl"

NoMetaFile == [exists |-> FALSE, meta |-> <<>>]

NoStats == [total_files |-> 0, processed_files |-> 0, failed_files |-> 0, total_chunks |-> 0,
            files_details |-> <<>>]

NoMatrix == [d |-> 0, rows |-> <<>>]

\* the chunks a chunker may emit: one without any word token, two with
ChunkTexts == {<<>>, <<1>>, <<2, 1>>}

\* len(text) of a parsed file
FileChars == {9}

\* the extensions of the scanned files (file_types is the caller's choice) and
\* what the parser's parse call does
Exts == {".txt", ".pdf", ".md"}
ParserResults == {"raises", "empty", "text"}

\* parse_document that lets the parser's exception through
ParseDocument_Uncaught(ext, res) ==
  IF ext \notin {".txt", ".pdf"} THEN "none" ELSE res

\* ParserFactory.parse_document: None for an extension without parser and for
\* a parser that raised, else what the parser returned
ParseDocument(ext, res) ==
  IF ext = ".pdf" THEN (IF res = "raises" THEN "none" ELSE res)
  ELSE IF ext \notin {".txt"} THEN "none"
  ELSE IF res = "raises" THEN "none"
  ELSE res

\* what parsing and chunking one file may give: an exception, no text
\* (chars = 0), a text that gives no chunk, or a text and its chunks
FileOutcomes ==
  {IF ParseDocument(e, r) = "raises" THEN [raised |-> TRUE, chars |-> 0, chunks |-> <<>>]
   ELSE IF ParseDocument(e, r) = "text" THEN [raised |-> FALSE, chars |-> c, chunks |-> ch]
   ELSE [raised |-> FALSE, chars |-> 0, chunks |-> <<>>] :
     e \in Exts, r \in ParserResults, c \in FileChars,
     ch \in UNION {[1..n -> ChunkTexts] : n \in 0..MaxChunks}}

\* a loop that skips only the files without text
FileFailed_NoText(o) == o.chars = 0

\* lines 112 and 120: not text, not chunks
FileFailed(o) == o.chars = 0 \/ o.chunks = <<>>

\* metadata that numbers the chunks of each file from 0
FileMetadata_PerFile(f, file_chunks, base) ==
  [i \in 1..Len(file_chunks) |-> [source_file |-> f, file_path |-> f, chunk_index |-> i - 1]]

\* the metadata lines 126-132 append for the chunks of file f when all_chunks
\* already holds base chunks
FileMetadata(f, file_chunks, base) ==
  [i \in 1..Len(file_chunks) |-> [source_file |-> f, file_path |-> f, chunk_index |-> base + i - 1]]

\* the keys of the dict process_directory returned
RetvalKeys(r) ==
  IF r.kind = "error" THEN {"error"}
  ELSE IF r.kind = "stats"
  THEN {"total_files", "processed_files", "failed_files", "total_chunks", "files_details"}
  ELSE {}

\* lines 82-103: scan the directory
Scan ==
  /\ pc = "Scanning"
  /\ \E n \in 0..MaxFiles :
       /\ files_to_process' = n
       /\ IF n = 0
          THEN /\ pc' = "Returned"
               /\ retval' = [kind |-> "error", stats |-> NoStats]
               /\ UNCHANGED stats
          ELSE /\ pc' = "ParsingChunking"
               /\ stats' = [NoStats EXCEPT !.total_files = n]
               /\ UNCHANGED retval
  /\ fileIdx' = 1
  /\ all_chunks' = <<>>
  /\ all_metadata' = <<>>
  /\ produced' = <<>>
  /\ UNCHANGED <<embedder_type, run_embeddings, metaFiles>>
  /\ UNCHANGED storeVars
  /\ UNCHANGED embVars
  /\ UNCHANGED chunkVars /\ UNCHANGED pdfVars /\ UNCHANGED kbVars
  /\ UNCHANGED retrVars

\* lines 105-141: one turn of the loop over the files
ParseChunkFile ==
  /\ pc = "ParsingChunking"
  /\ fileIdx <= files_to_process
  /\ \E o \in FileOutcomes :
       IF o.raised
       THEN /\ pc' = "Raised"
            /\ UNCHANGED <<fileIdx, stats, all_chunks, all_metadata, produced>>
       ELSE /\ IF FileFailed(o)
               THEN /\ stats' = [stats EXCEPT !.failed_files = @ + 1]
                    /\ UNCHANGED <<all_chunks, all_metadata, produced>>
               ELSE /\ all_chunks' = all_chunks \o o.chunks
                    /\ all_metadata' = all_metadata
                                         \o FileMetadata(fileIdx, o.chunks, Len(all_chunks))
                    /\ produced' = Append(produced, [file |-> fileIdx, chunks |-> o.chunks])
                    /\ stats' = [stats EXCEPT !.processed_files = @ + 1,
                                              !.files_details =
                                                 Append(@, [filename |-> fileIdx,
                                                            chunks |-> Len(o.chunks),
                                                            chars |-> o.chars])]
            /\ fileIdx' = fileIdx + 1
            /\ UNCHANGED pc
  /\ UNCHANGED <<embedder_type, files_to_process, run_embeddings, metaFiles, retval>>
  /\ UNCHANGED storeVars
  /\ UNCHANGED embVars
  /\ UNCHANGED chunkVars /\ UNCHANGED pdfVars /\ UNCHANGED kbVars
  /\ UNCHANGED retrVars

\* a run that never trains its embedder
HasFit_Never(type) == FALSE

\* hasattr(self.embedder, 'fit'): SimpleEmbedder and HybridEmbedder have it
HasFit(type) == type \in {"simple", "hybrid"}

\* lines 143-160: after the loop
FinishParsing ==
  /\ pc = "ParsingChunking"
  /\ fileIdx > files_to_process
  /\ stats' = [stats EXCEPT !.total_chunks = Len(all_chunks)]
  /\ IF all_chunks = <<>>
     THEN /\ pc' = "Returned"
          /\ retval' = [kind |-> "stats", stats |-> stats']
     ELSE /\ pc' = IF HasFit(embedder_type) THEN "Fitting" ELSE "Embedding"
          /\ UNCHANGED retval
  /\ UNCHANGED <<embedder_type, files_to_process, fileIdx, all_chunks, all_metadata, produced,
                 run_embeddings, metaFiles>>
  /\ UNCHANGED storeVars
  /\ UNCHANGED embVars
  /\ UNCHANGED chunkVars /\ UNCHANGED pdfVars /\ UNCHANGED kbVars
  /\ UNCHANGED retrVars

\* line 161: self.embedder.fit(all_chunks)
FitCorpus ==
  /\ pc = "Fitting"
  /\ FitCall(all_chunks)
  /\ pc' = IF FitStatus(all_chunks) = "ok" THEN "Embedding" ELSE "Raised"
  /\ UNCHANGED <<embedder_type, files_to_process, fileIdx, all_chunks, all_metadata, stats,
                 produced, run_embeddings, metaFiles, retval>>
  /\ UNCHANGED storeVars
  /\ UNCHANGED chunkVars /\ UNCHANGED pdfVars /\ UNCHANGED kbVars
  /\ UNCHANGED retrVars

\* self.embedder.embed(all_chunks) for the embedder create_embedder built
EmbedOutcomes(type, hasApi, isFitted, vocab, texts) ==
  LET simpleOut == SimpleEmbedOutcome(isFitted, vocab, texts)
  IN IF type = "simple" THEN {[out |-> simpleOut, path |-> "simple"]}
     ELSE IF type = "api" THEN {[out |-> a, path |-> "api"] : a \in ApiEmbedOutcomes(texts)}
     ELSE {HybridOutcome(hasApi, a, simpleOut) : a \in ApiEmbedOutcomes(texts)}

\* lines 163-164
EmbedCorpus ==
  /\ pc = "Embedding"
  /\ \E h \in EmbedOutcomes(embedder_type, api_embedder, fitted, vocabulary, all_chunks) :
       /\ embedded' = [op |-> "corpus_embed", status |-> h.out.status, path |-> h.path,
                       api |-> "none", rows |-> h.out.rows, d |-> h.out.d, texts |-> all_chunks]
       /\ IF h.out.status = "ok"
          THEN /\ run_embeddings' = [d |-> h.out.d, rows |-> h.out.rows]
               /\ pc' = "Indexing"
          ELSE /\ UNCHANGED run_embeddings
               /\ pc' = "Raised"
  /\ UNCHANGED <<api_embedder, fitted, vocabulary, served>>
  /\ UNCHANGED <<embedder_type, files_to_process, fileIdx, all_chunks, all_metadata, stats,
                 produced, metaFiles, retval>>
  /\ UNCHANGED storeVars
  /\ UNCHANGED chunkVars /\ UNCHANGED pdfVars /\ UNCHANGED kbVars
  /\ UNCHANGED retrVars

\* lines 168-169: a new store of the run_embeddings' width, then add_documents
BuildIndex ==
  /\ pc = "Indexing"
  /\ LET ix == EnsureIndex(CreateIndex(run_embeddings.d), run_embeddings)
         st == AddStatus(ix, run_embeddings, all_chunks)
     IN /\ dimension' = run_embeddings.d
        /\ index' = IF st = "ok" THEN [ix EXCEPT !.vecs = ix.vecs \o AsFloat32(run_embeddings.rows)]
                                 ELSE ix
        /\ documents' = IF st = "ok" THEN all_chunks ELSE <<>>
        /\ result' = [op |-> "add", status |-> st, value |-> <<>>, arg |-> <<run_embeddings.d>>, k |-> 0]
        /\ pc' = IF st = "ok" THEN "Saving" ELSE "Raised"
  /\ inserted' = [on |-> FALSE, pairs |-> <<>>]
  /\ UNCHANGED <<indexFiles, docFiles, saved>>
  /\ UNCHANGED <<embedder_type, files_to_process, fileIdx, all_chunks, all_metadata, stats,
                 produced, run_embeddings, metaFiles, retval>>
  /\ UNCHANGED embVars
  /\ UNCHANGED chunkVars /\ UNCHANGED pdfVars /\ UNCHANGED kbVars
  /\ UNCHANGED retrVars

\* lines 172-175: vector_store.save
SaveIndex ==
  /\ pc = "Saving"
  /\ SaveStore(IndexPath, DocsPath)
  /\ pc' = "SavingMetadata"
  /\ UNCHANGED <<embedder_type, files_to_process, fileIdx, all_chunks, all_metadata, stats,
                 produced, run_embeddings, metaFiles, retval>>
  /\ UNCHANGED embVars
  /\ UNCHANGED chunkVars /\ UNCHANGED pdfVars /\ UNCHANGED kbVars
  /\ UNCHANGED retrVars

\* lines 178-188: pickle the metadata and return the statistics
SaveMetadata ==
  /\ pc = "SavingMetadata"
  /\ metaFiles' = [metaFiles EXCEPT ![MetadataPath] = [exists |-> TRUE, meta |-> all_metadata]]
  /\ pc' = "Persisted"
  /\ retval' = [kind |-> "stats", stats |-> stats]
  /\ UNCHANGED <<embedder_type, files_to_process, fileIdx, all_chunks, all_metadata, stats,
                 produced, run_embeddings>>
  /\ UNCHANGED storeVars
  /\ UNCHANGED embVars
  /\ UNCHANGED chunkVars /\ UNCHANGED pdfVars /\ UNCHANGED kbVars
  /\ UNCHANGED retrVars

\* ------------------------------------------------------------------ chunkers
\* a text is the sequence of its characters; position i of the Python string is
\* position i + 1 of the sequence
Letters == {"a", "b"}
Spaces == {" ", "\n"}

IsSpace(c) == c \in Spaces

RECURSIVE LStrip(_)
LStrip(s) == IF s # <<>> /\ IsSpace(Head(s)) THEN LStrip(Tail(s)) ELSE s

RECURSIVE RStrip(_)
RStrip(s) == IF s # <<>> /\ IsSpace(s[Len(s)]) THEN RStrip(SubSeq(s, 1, Len(s) - 1)) ELSE s

\* str.strip()
Strip(s) == RStrip(LStrip(s))

\* s[a:b] for 0 <= a
Slice(s, a, b) == SubSeq(s, a + 1, Min(b, Len(s)))

\* the texts handed to FixedSizeChunker.chunk
FixedTexts == UNION {[1..n -> Letters \cup {" "}] : n \in 0..MaxTextLen}

\* FixedSizeChunker.__init__: the exception of lines 17-22
FixedInitStatus(size, overlap) ==
  IF size <= 0 THEN "ValueError"
  ELSE IF overlap < 0 THEN "ValueError"
  ELSE IF overlap >= size THEN "ValueError"
  ELSE "ok"

\* FixedSizeChunker(chunk_size, chunk_overlap)
FixedNew ==
  /\ chunk_pc = "NoChunker"
  /\ \E size \in 0..MaxChunkSize, overlap \in (0 - 1)..MaxChunkSize :
       IF FixedInitStatus(size, overlap) = "ok"
       THEN /\ chunk_size' = size
            /\ chunk_overlap' = overlap
            /\ chunk_pc' = "Ready"
       ELSE /\ chunk_pc' = "ValueError"
            /\ UNCHANGED <<chunk_size, chunk_overlap>>
  /\ UNCHANGED <<text, start, chunks, windows, max_chunk_size, min_chunk_size>>
  /\ UNCHANGED storeVars
  /\ UNCHANGED embVars
  /\ UNCHANGED offVars /\ UNCHANGED pdfVars /\ UNCHANGED kbVars
  /\ UNCHANGED retrVars

\* lines 37-42 of FixedSizeChunker.chunk(text)
FixedChunkCall ==
  /\ chunk_pc = "Ready"
  /\ \E t \in FixedTexts :
       /\ text' = t
       /\ chunk_pc' = IF t = <<>> \/ Strip(t) = <<>> THEN "Done" ELSE "Loop"
  /\ chunks' = <<>>
  /\ start' = 0
  /\ windows' = <<>>
  /\ UNCHANGED <<chunk_size, chunk_overlap, max_chunk_size, min_chunk_size>>
  /\ UNCHANGED storeVars
  /\ UNCHANGED embVars
  /\ UNCHANGED offVars /\ UNCHANGED pdfVars /\ UNCHANGED kbVars
  /\ UNCHANGED retrVars

\* a window that restarts chunk_overlap characters before the end of the last
NextStart_FromEnd(st, end, size, overlap) == end - overlap

\* a window that starts chunk_overlap characters after the end of the last
NextStart_Apart(st, end, size, overlap) == st + size + overlap

\* lines 52-56: the start of the next window
NextStart(st, end, size, overlap) ==
  LET advanced == st + size - overlap
  IN IF advanced <= end - size + overlap THEN end ELSE advanced

\* lines 44-56: one turn of the while loop
FixedChunkStep ==
  /\ chunk_pc = "Loop"
  /\ start < Len(text)
  /\ LET end == Min(start + chunk_size, Len(text))
         window == Slice(text, start, end)
         chunk == Strip(window)
     IN /\ chunks' = IF chunk # <<>> THEN Append(chunks, chunk) ELSE chunks
        /\ windows' = Append(windows, [start |-> start, end |-> end,
                                       from |-> start + Len(window) - Len(LStrip(window)),
                                       chunk |-> chunk])
        /\ start' = NextStart(start, end, chunk_size, chunk_overlap)
  /\ UNCHANGED <<chunk_pc, text, chunk_size, chunk_overlap, max_chunk_size, min_chunk_size>>
  /\ UNCHANGED storeVars
  /\ UNCHANGED embVars
  /\ UNCHANGED offVars /\ UNCHANGED pdfVars /\ UNCHANGED kbVars
  /\ UNCHANGED retrVars

\* line 44 false, line 58: return chunks
FixedChunkReturn ==
  /\ chunk_pc = "Loop"
  /\ start >= Len(text)
  /\ chunk_pc' = "Done"
  /\ UNCHANGED <<text, chunk_size, chunk_overlap, start, chunks, windows,
                 max_chunk_size, min_chunk_size>>
  /\ UNCHANGED storeVars
  /\ UNCHANGED embVars
  /\ UNCHANGED offVars /\ UNCHANGED pdfVars /\ UNCHANGED kbVars
  /\ UNCHANGED retrVars

\* --------------------------------------------------------- semantic chunker
\* the characters of a text handed to SemanticChunker.chunk: a letter, a
\* sentence ending, a blank and a line break
SemChars == {"a", ".", " ", "\n"}

\* the characters of [。！？\.!?]
Enders == {".", "!", "?"}

SemTexts == UNION {[1..n -> SemChars] : n \in 0..MaxSemLen}

\* (max_chunk_size, min_chunk_size) of the chunkers built
SemSizes == {<<2, 1>>, <<2, 2>>, <<4, 2>>, <<4, 3>>}

\* the separator "\n\n" of lines 48, 58, 83
ParaBreak == <<"\n", "\n">>

\* length of the leading run of whitespace of s
SpaceRun(s) == Len(s) - Len(LStrip(s))

RECURSIVE EnderRun(_)
\* length of the leading run of sentence endings of s
EnderRun(s) == IF s # <<>> /\ Head(s) \in Enders THEN 1 + EnderRun(Tail(s)) ELSE 0

\* length of the match of \n\s*\n at the head of s (0: no match): \s* is greedy,
\* so the match ends at the last line break of the leading run of whitespace
ParaSepLen(s) ==
  IF s = <<>> \/ Head(s) # "\n" THEN 0
  ELSE LET ends == {j \in 2..SpaceRun(s) : s[j] = "\n"}
       IN IF ends = {} THEN 0 ELSE CHOOSE j \in ends : \A o \in ends : o <= j

RECURSIVE SplitParagraphsFrom(_, _)
SplitParagraphsFrom(rest, cur) ==
  IF rest = <<>> THEN <<cur>>
  ELSE IF ParaSepLen(rest) > 0
  THEN <<cur>> \o SplitParagraphsFrom(SubSeq(rest, ParaSepLen(rest) + 1, Len(rest)), <<>>)
  ELSE SplitParagraphsFrom(Tail(rest), Append(cur, Head(rest)))

\* re.split(r'\n\s*\n', text), line 35
SplitParagraphs(t) == SplitParagraphsFrom(t, <<>>)

RECURSIVE SplitSentencesFrom(_, _)
SplitSentencesFrom(rest, cur) ==
  IF rest = <<>> THEN (IF Strip(cur) # <<>> THEN <<cur>> ELSE <<>>)
  ELSE IF Head(rest) \in Enders
  THEN LET e == EnderRun(rest)
           w == SpaceRun(SubSeq(rest, e + 1, Len(rest)))
       IN <<cur \o SubSeq(rest, 1, e + w)>>
          \o SplitSentencesFrom(SubSeq(rest, e + w + 1, Len(rest)), <<>>)
  ELSE SplitSentencesFrom(Tail(rest), Append(cur, Head(rest)))

\* _split_sentences, lines 101-115: every piece with the endings and the
\* whitespace that follow it, then the rest; blank sentences dropped
SplitSentences(t) == SplitSentencesFrom(t, <<>>)

RECURSIVE SentenceLoop(_, _, _, _)
\* lines 68-74: the loop over the sentences; gives [chunks, temp_chunk]
SentenceLoop(sentences, acc, temp_chunk, max) ==
  IF sentences = <<>> THEN [chunks |-> acc, temp_chunk |-> temp_chunk]
  ELSE LET sent == Head(sentences)
       IN IF Len(temp_chunk) + Len(sent) <= max
          THEN SentenceLoop(Tail(sentences), acc, temp_chunk \o sent, max)
          ELSE SentenceLoop(Tail(sentences),
                            IF temp_chunk # <<>> THEN Append(acc, Strip(temp_chunk)) ELSE acc,
                            sent, max)

\* lines 41-76: one turn of the loop over the paragraphs; st is
\* [chunks, current_chunk]
ParagraphStep(st, raw, max, min) ==
  LET para == Strip(raw)
  IN IF para = <<>> THEN st
     ELSE IF Len(st.current_chunk) + Len(para) + 2 <= max
     THEN [st EXCEPT !.current_chunk = IF @ # <<>> THEN @ \o ParaBreak \o para ELSE para]
     ELSE LET flushed ==
                IF Len(st.current_chunk) >= min
                THEN [chunks |-> Append(st.chunks, st.current_chunk), current_chunk |-> para]
                ELSE IF st.current_chunk # <<>>
                THEN [st EXCEPT !.current_chunk = @ \o ParaBreak \o para]
                ELSE [st EXCEPT !.current_chunk = para]
          IN IF Len(flushed.current_chunk) > max
             THEN LET r == SentenceLoop(SplitSentences(flushed.current_chunk),
                                        flushed.chunks, <<>>, max)
                  IN [chunks |-> r.chunks, current_chunk |-> r.temp_chunk]
             ELSE flushed

RECURSIVE ParagraphLoop(_, _, _, _)
ParagraphLoop(paragraphs, st, max, min) ==
  IF paragraphs = <<>> THEN st
  ELSE ParagraphLoop(Tail(paragraphs), ParagraphStep(st, Head(paragraphs), max, min), max, min)

\* an end of chunk that keeps only a buffer of min_chunk_size or more
LastChunk_DropShort(st, min) ==
  IF st.current_chunk # <<>> /\ Len(st.current_chunk) >= min
  THEN Append(st.chunks, st.current_chunk)
  ELSE st.chunks

\* lines 79-86: the last buffer
LastChunk(st, min) ==
  IF st.current_chunk # <<>> /\ Len(st.current_chunk) >= min
  THEN Append(st.chunks, st.current_chunk)
  ELSE IF st.current_chunk # <<>> /\ st.chunks # <<>>
  THEN [st.chunks EXCEPT ![Len(st.chunks)] = @ \o ParaBreak \o st.current_chunk]
  ELSE IF st.current_chunk # <<>>
  THEN Append(st.chunks, st.current_chunk)
  ELSE st.chunks

\* SemanticChunker.chunk(text)
SemanticChunks(t, max, min) ==
  IF t = <<>> \/ Strip(t) = <<>> THEN <<>>
  ELSE LastChunk(ParagraphLoop(SplitParagraphs(t),
                               [chunks |-> <<>>, current_chunk |-> <<>>], max, min), min)

\* SemanticChunker(max_chunk_size, min_chunk_size): any two sizes are accepted
SemanticNew ==
  /\ chunk_pc = "NoChunker"
  /\ \E sz \in SemSizes :
       /\ max_chunk_size' = sz[1]
       /\ min_chunk_size' = sz[2]
  /\ chunk_pc' = "Ready"
  /\ UNCHANGED <<text, chunk_size, chunk_overlap, start, chunks, windows>>
  /\ UNCHANGED storeVars
  /\ UNCHANGED embVars
  /\ UNCHANGED offVars /\ UNCHANGED pdfVars /\ UNCHANGED kbVars
  /\ UNCHANGED retrVars

SemanticChunk ==
  /\ chunk_pc = "Ready"
  /\ \E t \in SemTexts :
       /\ text' = t
       /\ chunks' = SemanticChunks(t, max_chunk_size, min_chunk_size)
  /\ chunk_pc' = "Done"
  /\ UNCHANGED <<chunk_size, chunk_overlap, start, windows, max_chunk_size, min_chunk_size>>
  /\ UNCHANGED storeVars
  /\ UNCHANGED embVars
  /\ UNCHANGED offVars /\ UNCHANGED pdfVars /\ UNCHANGED kbVars
  /\ UNCHANGED retrVars

\* ---------------------------------------------------------- online retriever
\* the chunk texts of a build on disk
StoredTexts == {<<1>>, <<2>>, <<1, 2>>}

\* a query string: blank (empty or only whitespace), or its word tokens
Queries ==
  {[blank |-> TRUE, tokens |-> <<>>]}
  \cup {[blank |-> FALSE, tokens |-> t] : t \in {<<>>, <<1>>, <<1, 2>>}}

\* the absent "metadata" key of a result
NoMetadata == [source_file |-> 0, file_path |-> 0, chunk_index |-> 0 - 1]

\* the metadata lists an offline build writes for n chunks: the files in
\* order, chunk_index the position in the corpus
BuiltMetadata(n) ==
  {[i \in 1..n |-> [source_file |-> src[i], file_path |-> src[i], chunk_index |-> i - 1]] :
     src \in {f \in [1..n -> 1..MaxFiles] : \A i \in 1..(n - 1) : f[i] <= f[i + 1]}}

\* the index an offline build makes of the chunk list docs, with the TF-IDF
\* embedder or with the remote one
BuiltIndexes(docs) ==
  {[present |-> TRUE, d |-> Len(SortTerms(V)), vecs |-> Transform(SortTerms(V), docs)] :
     V \in FitVocabularies(docs, MaxFeatures)}
  \cup {[present |-> TRUE, d |-> ApiDim, vecs |-> [i \in 1..Len(docs) |-> ApiVector(docs[i])]]}

\* list.index(x): the first 0-based position of x, which is in the list
RECURSIVE FirstIndex(_, _)
FirstIndex(docs, x) == IF Head(docs) = x THEN 0 ELSE 1 + FirstIndex(Tail(docs), x)

\* the metadata of the position the vector matched
MetaPosition_ByVector(docs, r) == r.idx

\* line 108: doc_idx = self.vector_store.documents.index(doc)
MetaPosition(docs, r) == FirstIndex(docs, r.text)

\* lines 98-112: the result dicts, from the (document, score) pairs of the
\* store (idx, the matched position, is kept beside them as history)
AttachMetadata(raw, docs, meta, return_metadata) ==
  [i \in 1..Len(raw) |->
     LET doc_idx == MetaPosition(docs, raw[i])
         attach == return_metadata /\ meta # <<>> /\ doc_idx < Len(meta)
     IN [document |-> raw[i].text, score |-> raw[i].sim, idx |-> raw[i].idx,
         has_metadata |-> attach,
         metadata |-> IF attach THEN meta[doc_idx + 1] ELSE NoMetadata]]

\* line 65, self.embedder.fitted: only SimpleEmbedder has the attribute
FittedTest(type) == IF type = "simple" THEN "ok" ELSE "AttributeError"

\* OnlineRetriever.__init__ and _load_index: the exception they end with
\* (ok: none), for the embedder create_embedder was asked for
RetrieverStatus(type, apiBuilt, docs) ==
  IF type = "api" /\ ~apiBuilt THEN "ValueError"
  ELSE IF ~IndexFileExists(IndexPath) \/ ~DocFileExists(DocsPath) THEN "FileNotFoundError"
  ELSE IF HasFit(type)
  THEN (IF FittedTest(type) = "AttributeError" THEN "AttributeError" ELSE FitStatus(docs))
  ELSE "ok"

\* OnlineRetriever(index_path, docs_path, metadata_path, embedder_type)
NewRetriever ==
  /\ retriever.status = "none"
  /\ \E type \in {"simple", "api", "hybrid"}, apiBuilt \in BOOLEAN :
       /\ type = "simple" => ~apiBuilt
       /\ LET loaded == IndexFileExists(IndexPath) /\ DocFileExists(DocsPath)
                          /\ ~(type = "api" /\ ~apiBuilt)
              docs == IF loaded THEN docFiles[DocsPath].docs ELSE <<>>
              st == RetrieverStatus(type, apiBuilt, docs)
              fit == loaded /\ type = "simple" /\ st = "ok"
          IN /\ retriever' = [status |-> st, embedder_type |-> type]
             /\ api_embedder' = (apiBuilt /\ type # "simple")
             /\ index' = IF loaded THEN ReadIndex(indexFiles[IndexPath]) ELSE NoIndex
             /\ dimension' = IF loaded THEN indexFiles[IndexPath].d ELSE NoDimension
             /\ documents' = docs
             /\ metadata' = IF loaded /\ metaFiles[MetadataPath].exists
                            THEN metaFiles[MetadataPath].meta ELSE <<>>
             /\ fitted' = fit
             /\ IF fit
                THEN \E V \in FitVocabularies(docs, MaxFeatures) : vocabulary' = SortTerms(V)
                ELSE vocabulary' = <<>>
             /\ embedded' = IF loaded /\ type = "simple"
                            THEN [op |-> "fit", status |-> st, path |-> "none", api |-> "none",
                                  rows |-> <<>>, d |-> 0, texts |-> docs]
                            ELSE embedded
  /\ inserted' = [on |-> FALSE, pairs |-> <<>>]
  /\ UNCHANGED <<indexFiles, docFiles, saved, result, served, results, reader>>
  /\ UNCHANGED offVars
  /\ UNCHANGED chunkVars /\ UNCHANGED pdfVars /\ UNCHANGED kbVars

\* OnlineRetriever.search(query, top_k, return_metadata) as the op call of the
\* retriever; fetched is the top_k handed to the store
RetrieverSearch(op, query, top_k, return_metadata, source, k) ==
  LET base == [op |-> op, status |-> "ok", value |-> <<>>, all |-> <<>>,
               query |-> query, k |-> k, fetched |-> top_k, source |-> source,
               with_metadata |-> return_metadata]
      keep(all) == IF op = "search" THEN all
                   ELSE LET filtered ==
                              SelectSeq(all, LAMBDA r : r.has_metadata
                                                         /\ r.metadata.source_file = source)
                        IN SubSeq(filtered, 1, Min(k, Len(filtered)))
  IN IF query.blank
     THEN /\ results' = base
          /\ UNCHANGED storeVars
          /\ UNCHANGED embVars
     ELSE \E h \in EmbedOutcomes(retriever.embedder_type, api_embedder, fitted, vocabulary,
                                 <<query.tokens>>) :
            IF h.out.status # "ok"
            THEN /\ results' = [base EXCEPT !.status = h.out.status]
                 /\ UNCHANGED storeVars
                 /\ UNCHANGED embVars
            ELSE /\ SearchStore(h.out.rows[1], top_k)
                 /\ results' =
                      IF result'.status # "ok" THEN [base EXCEPT !.status = result'.status]
                      ELSE LET all == AttachMetadata(result'.value, documents, metadata,
                                                     return_metadata)
                           IN [base EXCEPT !.all = all, !.value = keep(all)]

\* a search changes nothing but its own outcome, so the first call on a
\* retriever shows every outcome a later one can have
Retrieve ==
  /\ retriever.status = "ok"
  /\ results.op = "init"
  /\ \E query \in Queries, top_k \in 0..MaxTopK, return_metadata \in BOOLEAN :
       RetrieverSearch("search", query, top_k, return_metadata, 0, top_k)
  /\ UNCHANGED <<retriever, metadata, reader>>
  /\ UNCHANGED offVars
  /\ UNCHANGED chunkVars /\ UNCHANGED pdfVars /\ UNCHANGED kbVars

\* a search_by_source that asks the store for top_k results only
OverFetch_None(top_k) == top_k

\* line 134: top_k * 5
OverFetch(top_k) == top_k * 5

\* OnlineRetriever.search_by_source(query, source_file, top_k)
SearchBySource ==
  /\ retriever.status = "ok"
  /\ results.op = "init"
  /\ \E query \in Queries, source_file \in 1..MaxFiles, top_k \in 0..MaxTopK :
       RetrieverSearch("search_by_source", query, OverFetch(top_k), TRUE, source_file, top_k)
  /\ UNCHANGED <<retriever, metadata, reader>>
  /\ UNCHANGED offVars
  /\ UNCHANGED chunkVars /\ UNCHANGED pdfVars /\ UNCHANGED kbVars

\* ------------------------------------------------- a retriever and a rebuild
\* FaissVectorStore.save, lines 103-108: write_index
SaveIndexFile ==
  /\ pc = "Saving"
  /\ IF ~index.present
     THEN /\ result' = [op |-> "save", status |-> "ValueError", value |-> <<>>, arg |-> <<>>, k |-> 0]
          /\ pc' = "Raised"
          /\ UNCHANGED indexFiles
     ELSE /\ indexFiles' = [indexFiles EXCEPT ![IndexPath] = WriteIndex(index)]
          /\ pc' = "SavingDocuments"
          /\ UNCHANGED result
  /\ UNCHANGED <<dimension, index, documents, inserted, docFiles, saved>>
  /\ UNCHANGED <<embedder_type, files_to_process, fileIdx, all_chunks, all_metadata, stats,
                 produced, run_embeddings, metaFiles, retval>>
  /\ UNCHANGED embVars /\ UNCHANGED chunkVars /\ UNCHANGED retrVars
  /\ UNCHANGED pdfVars /\ UNCHANGED kbVars

\* FaissVectorStore.save, lines 110-116: pickle the documents
SaveDocumentsFile ==
  /\ pc = "SavingDocuments"
  /\ docFiles' = [docFiles EXCEPT ![DocsPath] = [exists |-> TRUE, docs |-> documents]]
  /\ saved' = [done |-> TRUE, dimension |-> dimension, index |-> index, documents |-> documents,
               index_path |-> IndexPath, documents_path |-> DocsPath]
  /\ result' = [op |-> "save", status |-> "ok", value |-> <<>>, arg |-> <<>>, k |-> 0]
  /\ pc' = "SavingMetadata"
  /\ UNCHANGED <<dimension, index, documents, inserted, indexFiles>>
  /\ UNCHANGED <<embedder_type, files_to_process, fileIdx, all_chunks, all_metadata, stats,
                 produced, run_embeddings, metaFiles, retval>>
  /\ UNCHANGED embVars /\ UNCHANGED chunkVars /\ UNCHANGED retrVars
  /\ UNCHANGED pdfVars /\ UNCHANGED kbVars

\* a load that leaves the store's document list as it was built, empty
ReadDocuments_Unassigned(file) == <<>>

\* FaissVectorStore.load, lines 143-144: self.documents = pickle.load(f)
ReadDocuments(file) == file.docs

\* OnlineRetriever.__init__ and _load_index, lines 48-55, up to read_index in
\* FaissVectorStore.load (began: where the rebuild was at that moment)
ReaderLoadIndex ==
  /\ reader.pc = "none"
  /\ \E type \in {"simple", "api"} :
       IF ~IndexFileExists(IndexPath) \/ ~DocFileExists(DocsPath)
       THEN reader' = [reader EXCEPT !.pc = "Loaded", !.status = "FileNotFoundError",
                                     !.embedder_type = type, !.began = pc, !.ended = pc]
       ELSE reader' = [reader EXCEPT !.pc = "LoadedIndex", !.embedder_type = type,
                                     !.index = ReadIndex(indexFiles[IndexPath]),
                                     !.dimension = indexFiles[IndexPath].d,
                                     !.began = pc]
  /\ UNCHANGED <<retriever, metadata, results>>
  /\ UNCHANGED storeVars /\ UNCHANGED embVars /\ UNCHANGED offVars /\ UNCHANGED chunkVars
  /\ UNCHANGED pdfVars /\ UNCHANGED kbVars

\* FaissVectorStore.load, lines 140-144: the documents file
ReaderLoadDocuments ==
  /\ reader.pc = "LoadedIndex"
  /\ IF ~DocFileExists(DocsPath)
     THEN reader' = [reader EXCEPT !.pc = "Loaded", !.status = "FileNotFoundError", !.ended = pc]
     ELSE reader' = [reader EXCEPT !.pc = "LoadedDocuments",
                                   !.documents = ReadDocuments(docFiles[DocsPath])]
  /\ UNCHANGED <<retriever, metadata, results>>
  /\ UNCHANGED storeVars /\ UNCHANGED embVars /\ UNCHANGED offVars /\ UNCHANGED chunkVars
  /\ UNCHANGED pdfVars /\ UNCHANGED kbVars

\* _load_index, lines 58-69: the metadata file, then the fit of a trainable
\* embedder on the documents read (ended: where the rebuild was then)
ReaderLoadMetadata ==
  /\ reader.pc = "LoadedDocuments"
  /\ reader' = [reader EXCEPT !.pc = "Loaded",
                              !.metadata = IF metaFiles[MetadataPath].exists
                                           THEN metaFiles[MetadataPath].meta ELSE <<>>,
                              !.status = IF HasFit(reader.embedder_type)
                                         THEN FitStatus(reader.documents) ELSE "ok",
                              !.ended = pc]
  /\ UNCHANGED <<retriever, metadata, results>>
  /\ UNCHANGED storeVars /\ UNCHANGED embVars /\ UNCHANGED offVars /\ UNCHANGED chunkVars
  /\ UNCHANGED pdfVars /\ UNCHANGED kbVars

\* --------------------------------------------------------------- PDF parsers
\* what parse_document hands back: None, the empty string, or a text
ParseValues == {"none", "empty", "text"}

\* the history of one parse_document call on a PDF: the requests made (slot,
\* uploaded, polls, downloaded), the states of the file in the last status
\* answer (<<"error">> for a request that failed), whether the local parser
\* ran, and the stage whose exception parse caught
NoJob == [slot |-> FALSE, uploaded |-> FALSE, polls |-> 0, answer |-> <<>>,
          downloaded |-> FALSE, local |-> FALSE, failure |-> "none"]

\* ParserFactory._get_pdf_parser: the remote parser when MINERU_API_KEY is set
\* and importing and constructing it did not raise, else the local parser
GetPdfParser(key, importOk) ==
  IF key /\ importOk THEN "MinerUPdfParser" ELSE "PdfParser"

\* ParserFactory.parse_document, lines 55-58: choose the parser for the file
ChoosePdfParser ==
  /\ parse_pc \in {"Idle", "Returned"}
  /\ Len(parsed) < MaxPdfs
  /\ \E importOk \in BOOLEAN :
       /\ pdf_parser' = GetPdfParser(mineru_api_key, importOk)
       /\ parse_pc' = IF pdf_parser' = "MinerUPdfParser" THEN "RequestingSlot" ELSE "LocalParsing"
  /\ job' = NoJob
  /\ UNCHANGED <<mineru_api_key, parsed>>
  /\ UNCHANGED storeVars /\ UNCHANGED embVars /\ UNCHANGED offVars
  /\ UNCHANGED chunkVars /\ UNCHANGED retrVars /\ UNCHANGED kbVars

\* PdfParser(): ImportError without PyMuPDF, which parse_document turns into
\* None; PdfParser.parse: the text, or "" for no text and for any exception
LocalParseResults == {"import_error", "raises", "empty", "text"}

LocalParseValue(res) ==
  IF res = "import_error" THEN "none"
  ELSE IF res = "text" THEN "text"
  ELSE "empty"

LocalParse ==
  /\ parse_pc = "LocalParsing"
  /\ \E res \in LocalParseResults :
       parsed' = Append(parsed, LocalParseValue(res))
  /\ job' = [job EXCEPT !.local = TRUE]
  /\ parse_pc' = "Returned"
  /\ UNCHANGED <<mineru_api_key, pdf_parser>>
  /\ UNCHANGED storeVars /\ UNCHANGED embVars /\ UNCHANGED offVars
  /\ UNCHANGED chunkVars /\ UNCHANGED retrVars /\ UNCHANGED kbVars

\* the except clause of MinerUPdfParser.parse, lines 136-138
ParseFailed(stage) ==
  /\ job' = [job EXCEPT !.failure = stage, !.slot = (@ \/ stage = "slot"),
                        !.uploaded = (@ \/ stage = "upload"),
                        !.downloaded = (@ \/ stage = "download")]
  /\ parsed' = Append(parsed, "empty")
  /\ parse_pc' = "Returned"

\* what the service may answer to a request: the transport raises, the body
\* is not the expected JSON, the code or status reports an error, or it is fine
Answers == {"raises", "malformed", "error", "ok"}

\* _upload_file, lines 48-59: ask for the upload URL
RequestUploadUrl ==
  /\ parse_pc = "RequestingSlot"
  /\ \E a \in Answers :
       IF a = "ok"
       THEN /\ job' = [job EXCEPT !.slot = TRUE]
            /\ parse_pc' = "Uploading"
            /\ UNCHANGED parsed
       ELSE ParseFailed("slot")
  /\ UNCHANGED <<mineru_api_key, pdf_parser>>
  /\ UNCHANGED storeVars /\ UNCHANGED embVars /\ UNCHANGED offVars
  /\ UNCHANGED chunkVars /\ UNCHANGED retrVars /\ UNCHANGED kbVars

\* _upload_file, lines 62-67: put the bytes of the file
PutFile ==
  /\ parse_pc = "Uploading"
  /\ \E a \in Answers \ {"malformed"} :
       IF a = "ok"
       THEN /\ job' = [job EXCEPT !.uploaded = TRUE]
            /\ parse_pc' = "Polling"
            /\ UNCHANGED parsed
       ELSE ParseFailed("upload")
  /\ UNCHANGED <<mineru_api_key, pdf_parser>>
  /\ UNCHANGED storeVars /\ UNCHANGED embVars /\ UNCHANGED offVars
  /\ UNCHANGED chunkVars /\ UNCHANGED retrVars /\ UNCHANGED kbVars

\* the states the service reports for a file, and the extract_result lists of
\* a status answer: the items of this file, in the order of the list
ItemStates == {"pending", "running", "done", "failed"}
ExtractResults == {<<>>} \cup {<<a>> : a \in ItemStates}
                    \cup {<<a, b>> : a \in {"running"}, b \in {"done", "failed"}}

\* a poll that gives up after the first answer without a terminal state
PollOutcome_Timeout(items, polls) ==
  IF items = <<>> THEN (IF polls >= 1 THEN "failed" ELSE "again")
  ELSE IF Head(items) = "done" THEN "done"
  ELSE IF Head(items) = "failed" THEN "failed"
  ELSE IF polls >= 1 THEN "failed"
  ELSE "again"

\* lines 82-94: the first item of the file with state done or failed decides,
\* otherwise sleep and ask again
RECURSIVE PollOutcome(_, _)
PollOutcome(items, polls) ==
  IF items = <<>> THEN "again"
  ELSE IF Head(items) = "done" THEN "done"
  ELSE IF Head(items) = "failed" THEN "failed"
  ELSE PollOutcome(Tail(items), polls)

\* _get_batch_result, lines 71-94: one turn of the while True loop
PollBatch ==
  /\ parse_pc = "Polling"
  /\ \E a \in Answers :
       IF a = "ok"
       THEN \E items \in ExtractResults :
              LET o == PollOutcome(items, job.polls)
              IN IF o = "failed"
                 THEN /\ job' = [job EXCEPT !.polls = Min(@ + 1, MaxPolls), !.answer = items,
                                            !.failure = "failed"]
                      /\ parsed' = Append(parsed, "empty")
                      /\ parse_pc' = "Returned"
                 ELSE /\ job' = [job EXCEPT !.polls = Min(@ + 1, MaxPolls), !.answer = items]
                      /\ parse_pc' = IF o = "done" THEN "Downloading" ELSE "Polling"
                      /\ UNCHANGED parsed
       ELSE /\ job' = [job EXCEPT !.polls = Min(@ + 1, MaxPolls), !.answer = <<"error">>,
                                  !.failure = "poll"]
            /\ parsed' = Append(parsed, "empty")
            /\ parse_pc' = "Returned"
  /\ UNCHANGED <<mineru_api_key, pdf_parser>>
  /\ UNCHANGED storeVars /\ UNCHANGED embVars /\ UNCHANGED offVars
  /\ UNCHANGED chunkVars /\ UNCHANGED retrVars /\ UNCHANGED kbVars

\* what the downloaded archive holds: a first .md file, else a first .txt
\* file, each empty or not, or neither
ZipContents == {"md_text", "md_empty", "txt_text", "txt_empty", "neither"}

\* _extract_text_from_zip, lines 98-116, and the return of parse
ExtractTextFromZip ==
  /\ parse_pc = "Downloading"
  /\ \E a \in Answers :
       IF a = "ok"
       THEN \E z \in ZipContents :
              IF z = "neither"
              THEN ParseFailed("download")
              ELSE /\ job' = [job EXCEPT !.downloaded = TRUE]
                   /\ parsed' = Append(parsed, IF z \in {"md_text", "txt_text"} THEN "text" ELSE "empty")
                   /\ parse_pc' = "Returned"
       ELSE ParseFailed("download")
  /\ UNCHANGED <<mineru_api_key, pdf_parser>>
  /\ UNCHANGED storeVars /\ UNCHANGED embVars /\ UNCHANGED offVars
  /\ UNCHANGED chunkVars /\ UNCHANGED retrVars /\ UNCHANGED kbVars

\* ------------------------------------------------------- knowledge retriever
\* an entry of the knowledge base is a dict; find_solutions and search_concepts
\* may give it a relevance_score key
Entry(i) == [name |-> i, has_score |-> FALSE, relevance_score |-> 0]

EmptyKb == [features |-> <<>>, solutions |-> <<>>, domain_knowledge |-> <<>>]

\* the knowledge bases _load_knowledge may read from the data directory
Kbs ==
  {[features |-> [i \in 1..nf |-> Entry(i)], solutions |-> [i \in 1..ns |-> Entry(i)],
    domain_knowledge |-> [i \in 1..nc |-> Entry(i)]] :
     nf \in {0, 1}, ns \in {0, 1, 2}, nc \in {0, 1}}

\* KnowledgeBase.get_all_documents: a document per feature, solution and
\* concept, in that order; its text is formatted from the entry, and
\* metadata["source"] is the entry itself (source is its position in its list)
GetAllDocuments(k) ==
  [i \in 1..Len(k.features) |-> [type |-> "feature", text |-> i, source |-> i]]
  \o [i \in 1..Len(k.solutions) |-> [type |-> "solution", text |-> i, source |-> i]]
  \o [i \in 1..Len(k.domain_knowledge) |-> [type |-> "concept", text |-> i, source |-> i]]

\* the dict metadata["source"] of a document refers to
Source(k, doc) ==
  IF doc.type = "feature" THEN k.features[doc.source]
  ELSE IF doc.type = "solution" THEN k.solutions[doc.source]
  ELSE k.domain_knowledge[doc.source]

\* the cosine similarities of a query to the documents, and the doc_type
\* argument ("" for None)
Sims == {1, 2}
DocTypes == {"", "feature", "solution", "concept"}

NoKResults == [op |-> "init", top_k |-> 0, doc_type |-> "", value |-> <<>>, later |-> FALSE]
NoEarlier == [set |-> FALSE, value |-> <<>>, returned |-> <<>>]

\* lines 90-98: the positions of the documents that pass the filter
RECURSIVE FilterIndices(_, _, _)
FilterIndices(docs, doc_type, i) ==
  IF i > Len(docs) THEN <<>>
  ELSE IF doc_type = "" \/ docs[i].type = doc_type
       THEN <<i>> \o FilterIndices(docs, doc_type, i + 1)
       ELSE FilterIndices(docs, doc_type, i + 1)

\* np.argsort of a short array: positions by ascending value, equal values in
\* their order in the array
RECURSIVE ArgSortFrom(_, _)
ArgSortFrom(vals, left) ==
  IF left = {} THEN <<>>
  ELSE LET m == CHOOSE i \in left :
                  \A j \in left : vals[i] < vals[j] \/ (vals[i] = vals[j] /\ i <= j)
       IN <<m>> \o ArgSortFrom(vals, left \ {m})

ArgSort(vals) == ArgSortFrom(vals, DOMAIN vals)

Reverse(s) == [i \in 1..Len(s) |-> s[Len(s) + 1 - i]]

\* s[-top_k:] for top_k >= 0: -0 is 0, so top_k = 0 takes the whole array
LastK(s, top_k) ==
  IF top_k = 0 THEN s
  ELSE IF top_k >= Len(s) THEN s
  ELSE SubSeq(s, Len(s) - top_k + 1, Len(s))

\* KnowledgeRetriever.search, lines 75-118: sims[i] is the similarity of
\* document i; a result is the document's position and its score
KSearchValue(docs, sims, top_k, doc_type) ==
  IF docs = <<>> THEN <<>>
  ELSE LET indices == FilterIndices(docs, doc_type, 1)
           filtered == [i \in 1..Len(indices) |-> sims[indices[i]]]
       IN IF filtered = <<>> THEN <<>>
          ELSE LET top == Reverse(LastK(ArgSort(filtered), top_k))
               IN [i \in 1..Len(top) |-> [doc |-> indices[top[i]], score |-> filtered[top[i]]]]

\* the dicts a caller holds for a result: the entries its documents refer to
Held(k, docs, value) == [i \in 1..Len(value) |-> Source(k, docs[value[i].doc])]

\* the first query's result is kept by its caller
Keep(k, docs, value) ==
  IF earlier.set THEN earlier
  ELSE [set |-> TRUE, value |-> value, returned |-> Held(k, docs, value)]

\* a caller makes a query, keeps its result, and makes a later query
MayQuery == ~kresults.later

\* RAGTool.search_knowledge, lines 46-62: retriever.search
KSearch ==
  /\ MayQuery
  /\ \E sims \in [1..Len(kr_documents) -> Sims], top_k \in 0..MaxTopK, doc_type \in DocTypes :
       LET value == KSearchValue(kr_documents, sims, top_k, doc_type)
       IN /\ kresults' = [op |-> "search", top_k |-> top_k, doc_type |-> doc_type, value |-> value,
                          later |-> earlier.set]
          /\ earlier' = Keep(kb, kr_documents, value)
  /\ UNCHANGED <<kb, kb_loaded, kr_documents>>
  /\ UNCHANGED storeVars /\ UNCHANGED embVars /\ UNCHANGED offVars
  /\ UNCHANGED chunkVars /\ UNCHANGED retrVars /\ UNCHANGED pdfVars

\* lines 191-194 and 212-215: solution_data["relevance_score"] = result["score"]
\* on the dict metadata["source"] refers to
RECURSIVE SetScores(_, _, _)
SetScores(entries, docs, value) ==
  IF value = <<>> THEN entries
  ELSE SetScores([entries EXCEPT ![docs[Head(value).doc].source] =
                    [@ EXCEPT !.has_score = TRUE, !.relevance_score = Head(value).score]],
                 docs, Tail(value))

\* KnowledgeRetriever.find_solutions, lines 187-196
FindSolutions ==
  /\ MayQuery
  /\ \E sims \in [1..Len(kr_documents) -> Sims], top_k \in 0..MaxTopK :
       LET value == KSearchValue(kr_documents, sims, top_k, "solution")
       IN /\ kb' = [kb EXCEPT !.solutions = SetScores(@, kr_documents, value)]
          /\ kresults' = [op |-> "find_solutions", top_k |-> top_k, doc_type |-> "solution",
                          value |-> value, later |-> earlier.set]
          /\ earlier' = Keep(kb', kr_documents, value)
  /\ UNCHANGED <<kb_loaded, kr_documents>>
  /\ UNCHANGED storeVars /\ UNCHANGED embVars /\ UNCHANGED offVars
  /\ UNCHANGED chunkVars /\ UNCHANGED retrVars /\ UNCHANGED pdfVars

\* KnowledgeRetriever.search_concepts, lines 209-217
SearchConcepts ==
  /\ MayQuery
  /\ \E sims \in [1..Len(kr_documents) -> Sims], top_k \in 0..MaxTopK :
       LET value == KSearchValue(kr_documents, sims, top_k, "concept")
       IN /\ kb' = [kb EXCEPT !.domain_knowledge = SetScores(@, kr_documents, value)]
          /\ kresults' = [op |-> "search_concepts", top_k |-> top_k, doc_type |-> "concept",
                          value |-> value, later |-> earlier.set]
          /\ earlier' = Keep(kb', kr_documents, value)
  /\ UNCHANGED <<kb_loaded, kr_documents>>
  /\ UNCHANGED storeVars /\ UNCHANGED embVars /\ UNCHANGED offVars
  /\ UNCHANGED chunkVars /\ UNCHANGED retrVars /\ UNCHANGED pdfVars

\* ---------------------------------------------------------- specifications
NoResult == [op |-> "init", status |-> "ok", value |-> <<>>, arg |-> <<>>, k |-> 0]

\* FaissVectorStore(dimension) just constructed
StoreStart(dim) ==
  /\ dimension = dim
  /\ index = (IF dim # NoDimension THEN CreateIndex(dim) ELSE NoIndex)
  /\ documents = <<>>
  /\ inserted = [on |-> TRUE, pairs |-> <<>>]
  /\ result = NoResult

NoFiles ==
  /\ indexFiles = [p \in IndexPaths |-> NoFile]
  /\ docFiles = [p \in DocPaths |-> NoDocFile]
  /\ saved = NoSave

\* HybridEmbedder.__init__: an untrained SimpleEmbedder, and the APIEmbedder
\* when its construction succeeded
EmbedderStart(hasApi) ==
  /\ api_embedder = hasApi
  /\ fitted = FALSE
  /\ vocabulary = <<>>
  /\ served = NoServed
  /\ embedded = NoEmbedded

\* OfflineProcessor.__init__ with the given embedder_type, before process_directory
ProcessorStart(type) ==
  /\ pc = "Scanning"
  /\ embedder_type = type
  /\ files_to_process = 0
  /\ fileIdx = 1
  /\ all_chunks = <<>>
  /\ all_metadata = <<>>
  /\ stats = NoStats
  /\ produced = <<>>
  /\ run_embeddings = NoMatrix
  /\ retval = [kind |-> "none", stats |-> NoStats]

\* no chunker built
ChunkerStart ==
  /\ chunk_pc = "NoChunker"
  /\ text = <<>>
  /\ chunk_size = 0
  /\ chunk_overlap = 0
  /\ start = 0
  /\ chunks = <<>>
  /\ windows = <<>>
  /\ max_chunk_size = 0
  /\ min_chunk_size = 0

NoResults == [op |-> "init", status |-> "ok", value |-> <<>>, all |-> <<>>,
              query |-> [blank |-> TRUE, tokens |-> <<>>], k |-> 0, fetched |-> 0, source |-> 0, with_metadata |-> FALSE]

\* no OnlineRetriever built
\* no retriever in another process
NoReader == [pc |-> "none", status |-> "none", embedder_type |-> "none", index |-> NoIndex,
             dimension |-> NoDimension, documents |-> <<>>, metadata |-> <<>>,
             began |-> "none", ended |-> "none"]

RetrieverStart ==
  /\ retriever = [status |-> "none", embedder_type |-> "none"]
  /\ metadata = <<>>
  /\ results = NoResults
  /\ reader = NoReader

\* no PDF was handed to parse_document
PdfStart ==
  /\ mineru_api_key = FALSE
  /\ pdf_parser = "none"
  /\ parse_pc = "Idle"
  /\ job = NoJob
  /\ parsed = <<>>

\* no KnowledgeRetriever was built: an empty knowledge base
KbStart ==
  /\ kb = EmptyKb
  /\ kb_loaded = EmptyKb
  /\ kr_documents = <<>>
  /\ kresults = NoKResults
  /\ earlier = NoEarlier

Init ==
  /\ \E dim \in Dims \cup {NoDimension} : StoreStart(dim)
  /\ NoFiles
  /\ EmbedderStart(FALSE)
  /\ ProcessorStart("simple")
  /\ metaFiles = [p \in MetaPaths |-> NoMetaFile]
  /\ ChunkerStart
  /\ RetrieverStart
  /\ PdfStart
  /\ KbStart

\* the store in memory: construction, add_documents, search
Next == New \/ Add \/ Search

Spec == Init /\ [][Next]_vars

\* the store and its two files: construction, add_documents, save, load
NextPersist == New \/ Add \/ Save \/ Load

SpecPersist == Init /\ [][NextPersist]_vars

\* the store and its two files, a load being free to name a missing file
NextLoad == New \/ Add \/ Save \/ LoadAnyPath

SpecLoad == Init /\ [][NextLoad]_vars

\* one HybridEmbedder and its SimpleEmbedder: fit and embed calls
NextEmb == Fit \/ SimpleEmbed \/ HybridEmbed

InitEmb ==
  /\ StoreStart(NoDimension)
  /\ NoFiles
  /\ \E hasApi \in BOOLEAN : EmbedderStart(hasApi)
  /\ ProcessorStart("hybrid")
  /\ metaFiles = [p \in MetaPaths |-> NoMetaFile]
  /\ ChunkerStart
  /\ RetrieverStart
  /\ PdfStart
  /\ KbStart

SpecEmb == InitEmb /\ [][NextEmb]_vars

\* one run of OfflineProcessor.process_directory, over an output directory that
\* is empty or holds the three files of an earlier build of one chunk
OldBuild ==
  /\ indexFiles = [p \in IndexPaths |-> [exists |-> TRUE, d |-> 1, ntotal |-> 1, xb |-> <<1>>]]
  /\ docFiles = [p \in DocPaths |-> [exists |-> TRUE, docs |-> << <<1>> >>]]
  /\ metaFiles = [p \in MetaPaths |->
                    [exists |-> TRUE,
                     meta |-> <<[source_file |-> 1, file_path |-> 1, chunk_index |-> 0]>>]]
  /\ saved = NoSave

InitOff ==
  /\ StoreStart(NoDimension)
  /\ (NoFiles /\ metaFiles = [p \in MetaPaths |-> NoMetaFile]) \/ OldBuild
  /\ \E type \in {"simple", "api", "hybrid"} :
       /\ ProcessorStart(type)
       /\ \E hasApi \in BOOLEAN : (type = "simple" => ~hasApi) /\ (type = "api" => hasApi)
                                  /\ EmbedderStart(hasApi)
  /\ ChunkerStart
  /\ RetrieverStart
  /\ PdfStart
  /\ KbStart

NextOff ==
  Scan \/ ParseChunkFile \/ FinishParsing \/ FitCorpus \/ EmbedCorpus \/ BuildIndex
  \/ SaveIndex \/ SaveMetadata

SpecOff == InitOff /\ [][NextOff]_vars

\* one FixedSizeChunker and one chunk call on it
InitFixed ==
  /\ StoreStart(NoDimension)
  /\ NoFiles
  /\ EmbedderStart(FALSE)
  /\ ProcessorStart("simple")
  /\ metaFiles = [p \in MetaPaths |-> NoMetaFile]
  /\ ChunkerStart
  /\ RetrieverStart
  /\ PdfStart
  /\ KbStart

NextFixed == FixedNew \/ FixedChunkCall \/ FixedChunkStep \/ FixedChunkReturn

SpecFixed == InitFixed /\ [][NextFixed]_vars

\* one SemanticChunker and one chunk call on it
NextSemantic == SemanticNew \/ SemanticChunk

SpecSemantic == InitFixed /\ [][NextSemantic]_vars

\* an output directory that holds a build of one to MaxDocs chunks (index and
\* documents, with or without the metadata file), one OnlineRetriever built
\* over it and its searches
InitRetr ==
  /\ StoreStart(NoDimension)
  /\ EmbedderStart(FALSE)
  /\ ProcessorStart("simple")
  /\ ChunkerStart
  /\ RetrieverStart
  /\ PdfStart
  /\ KbStart
  /\ saved = NoSave
  /\ \E n \in 1..MaxDocs : \E docs \in [1..n -> StoredTexts] :
       /\ docFiles = [p \in DocPaths |-> [exists |-> TRUE, docs |-> docs]]
       /\ \E ix \in BuiltIndexes(docs) : indexFiles = [p \in IndexPaths |-> WriteIndex(ix)]
       /\ \/ metaFiles = [p \in MetaPaths |-> NoMetaFile]
          \/ \E meta \in BuiltMetadata(n) :
               metaFiles = [p \in MetaPaths |-> [exists |-> TRUE, meta |-> meta]]

NextRetr == NewRetriever \/ Retrieve \/ SearchBySource

SpecRetr == InitRetr /\ [][NextRetr]_vars

\* the chunk call is a running Python call: its loop keeps taking turns
SpecFixedFair == SpecFixed /\ WF_vars(FixedChunkStep) /\ WF_vars(FixedChunkReturn)

\* ParserFactory.parse_document on the PDF files of a directory, one after the
\* other, with or without MINERU_API_KEY in the environment
InitPdf ==
  /\ StoreStart(NoDimension)
  /\ NoFiles
  /\ EmbedderStart(FALSE)
  /\ ProcessorStart("simple")
  /\ metaFiles = [p \in MetaPaths |-> NoMetaFile]
  /\ ChunkerStart
  /\ RetrieverStart
  /\ KbStart
  /\ mineru_api_key \in BOOLEAN
  /\ pdf_parser = "none"
  /\ parse_pc = "Idle"
  /\ job = NoJob
  /\ parsed = <<>>

NextPdf ==
  ChoosePdfParser \/ LocalParse \/ RequestUploadUrl \/ PutFile \/ PollBatch \/ ExtractTextFromZip

SpecPdf == InitPdf /\ [][NextPdf]_vars

\* a KnowledgeRetriever over a loaded knowledge base (lines 27-33 and 35-56)
\* and the queries made on it
InitKb ==
  /\ StoreStart(NoDimension)
  /\ NoFiles
  /\ EmbedderStart(FALSE)
  /\ ProcessorStart("simple")
  /\ metaFiles = [p \in MetaPaths |-> NoMetaFile]
  /\ ChunkerStart
  /\ RetrieverStart
  /\ PdfStart
  /\ kb \in Kbs
  /\ kb_loaded = kb
  /\ kr_documents = GetAllDocuments(kb)
  /\ kresults = NoKResults
  /\ earlier = NoEarlier

NextKb == KSearch \/ FindSolutions \/ SearchConcepts

SpecKb == InitKb /\ [][NextKb]_vars

\* the chunk lists of a build with one chunk per file
BuildChunks == {c \in UNION {[1..n -> ChunkTexts \ {<<>>}] : n \in 1..MaxFiles} : FitStatus(c) = "ok"}

\* a run of process_directory with the TF-IDF embedder that built its store
\* (line 169 returned) over the files of an earlier build, and is about to
\* persist it
InitRebuild ==
  /\ OldBuild
  /\ \E docs \in BuildChunks : \E V \in FitVocabularies(docs, MaxFeatures) :
       LET n == Len(docs)
           rows == Transform(SortTerms(V), docs)
       IN /\ pc = "Saving"
          /\ embedder_type = "simple"
          /\ files_to_process = n
          /\ fileIdx = n + 1
          /\ all_chunks = docs
          /\ all_metadata = [i \in 1..n |-> [source_file |-> i, file_path |-> i, chunk_index |-> i - 1]]
          /\ stats = [NoStats EXCEPT !.total_files = n, !.processed_files = n, !.total_chunks = n,
                                     !.files_details = [i \in 1..n |->
                                        [filename |-> i, chunks |-> 1, chars |-> 9]]]
          /\ produced = [i \in 1..n |-> [file |-> i, chunks |-> <<docs[i]>>]]
          /\ run_embeddings = [d |-> Len(SortTerms(V)), rows |-> rows]
          /\ retval = [kind |-> "none", stats |-> NoStats]
          /\ dimension = Len(SortTerms(V))
          /\ index = [present |-> TRUE, d |-> Len(SortTerms(V)), vecs |-> AsFloat32(rows)]
          /\ documents = docs
          /\ inserted = [on |-> FALSE, pairs |-> <<>>]
          /\ result = [op |-> "add", status |-> "ok", value |-> <<>>,
                       arg |-> <<Len(SortTerms(V))>>, k |-> 0]
          /\ api_embedder = FALSE
          /\ fitted = TRUE
          /\ vocabulary = SortTerms(V)
          /\ served = NoServed
          /\ embedded = [op |-> "corpus_embed", status |-> "ok", path |-> "simple",
                         api |-> "none", rows |-> rows, d |-> Len(SortTerms(V)), texts |-> docs]
  /\ ChunkerStart
  /\ RetrieverStart
  /\ PdfStart
  /\ KbStart

\* the three writes of the rebuild, and an OnlineRetriever built by another
\* process at any moment of them
NextRebuild ==
  SaveIndexFile \/ SaveDocumentsFile \/ SaveMetadata
  \/ ReaderLoadIndex \/ ReaderLoadDocuments \/ ReaderLoadMetadata

SpecRebuild == InitRebuild /\ [][NextRebuild]_vars

\* the two files of the end-to-end scenario as word tokens, numbered in the
\* order of the words as strings: alpha 1, beta 2, delta 3, epsilon 4,
\* gamma 5, zeta 6
ScenarioA == <<1, 2, 5>>
ScenarioB == <<3, 4, 6>>
ScenarioChunks == <<ScenarioA, ScenarioB>>

\* process_directory, run to its end over the two files, each kept as one
\* chunk, by a processor of any embedder_type: the fit (line 161), the embed
\* call that returned (line 163), the store (lines 168-169), the three files
\* (lines 172-182)
InitE2E ==
  /\ \E type \in {"simple", "api", "hybrid"}, hasApi \in BOOLEAN :
     \E V \in FitVocabularies(ScenarioChunks, MaxFeatures) :
     \E h \in EmbedOutcomes(type, hasApi, HasFit(type), SortTerms(V), ScenarioChunks) :
       LET ix == [CreateIndex(h.out.d) EXCEPT !.vecs = AsFloat32(h.out.rows)]
           meta == FileMetadata(1, <<ScenarioA>>, 0) \o FileMetadata(2, <<ScenarioB>>, 1)
       IN /\ type = "simple" => ~hasApi
          /\ type = "api" => hasApi
          /\ h.out.status = "ok"
          /\ pc = "Persisted"
          /\ embedder_type = type
          /\ files_to_process = 2
          /\ fileIdx = 3
          /\ all_chunks = ScenarioChunks
          /\ all_metadata = meta
          /\ stats = [NoStats EXCEPT !.total_files = 2, !.processed_files = 2, !.total_chunks = 2,
                                     !.files_details = [i \in 1..2 |->
                                        [filename |-> i, chunks |-> 1, chars |-> 9]]]
          /\ produced = [i \in 1..2 |-> [file |-> i, chunks |-> <<ScenarioChunks[i]>>]]
          /\ run_embeddings = [d |-> h.out.d, rows |-> h.out.rows]
          /\ retval = [kind |-> "stats", stats |-> stats]
          /\ dimension = h.out.d
          /\ index = ix
          /\ documents = ScenarioChunks
          /\ inserted = [on |-> FALSE, pairs |-> <<>>]
          /\ result = [op |-> "save", status |-> "ok", value |-> <<>>, arg |-> <<>>, k |-> 0]
          /\ indexFiles = [p \in IndexPaths |-> WriteIndex(ix)]
          /\ docFiles = [p \in DocPaths |-> [exists |-> TRUE, docs |-> ScenarioChunks]]
          /\ metaFiles = [p \in MetaPaths |-> [exists |-> TRUE, meta |-> meta]]
          /\ saved = [done |-> TRUE, dimension |-> h.out.d, index |-> ix,
                      documents |-> ScenarioChunks,
                      index_path |-> IndexPath, documents_path |-> DocsPath]
          /\ api_embedder = hasApi
          /\ fitted = HasFit(type)
          /\ vocabulary = IF HasFit(type) THEN SortTerms(V) ELSE <<>>
          /\ served = NoServed
          /\ embedded = [op |-> "corpus_embed", status |-> "ok", path |-> h.path,
                         api |-> "none", rows |-> h.out.rows, d |-> h.out.d,
                         texts |-> ScenarioChunks]
  /\ ChunkerStart
  /\ RetrieverStart
  /\ PdfStart
  /\ KbStart

\* then an OnlineRetriever over the files, and a search on it
NextE2E == NewRetriever \/ Retrieve \/ SearchBySource

SpecE2E == InitE2E /\ [][NextE2E]_vars

\* ------------------------------------------------------------------ claims
Errors == {"ValueError", "AssertionError", "FileNotFoundError", "RuntimeError"}

Aligned == index.present /\ Ntotal(index) = Len(documents)

\* C1: after any sequence of add_documents calls, rejected ones included, the
\* index holds exactly len(documents) vectors and the i-th stored vector is the
\* one (as float32) that was passed in together with documents[i].
C1_Alignment ==
  inserted.on =>
    /\ Ntotal(index) = Len(documents)
    /\ Len(inserted.pairs) = Len(documents)
    /\ \A i \in 1..Len(documents) :
         /\ documents[i] = inserted.pairs[i].text
         /\ index.vecs[i] = [j \in 1..Len(inserted.pairs[i].vec) |-> Float32(inserted.pairs[i].vec[j])]

\* two different texts with two different vectors are stored and the last call was rejected
C1_Witness ==
  /\ inserted.on
  /\ Len(documents) = 2
  /\ documents[1] # documents[2]
  /\ index.vecs[1] # index.vecs[2]
  /\ result.op = "add"
  /\ result.status = "ValueError"

\* C2: save followed by load on a fresh store gives back the saved document
\* list, the same number of stored vectors and the same dimension, both the
\* index's and the one the store reports (FaissVectorStore.dimension).
C2_RoundTrip ==
  (result.op = "load" /\ result.status = "ok" /\ saved.done) =>
    /\ documents = saved.documents
    /\ Ntotal(index) = Ntotal(saved.index)
    /\ index.d = saved.index.d
    /\ dimension = saved.dimension

\* C4 (as claimed): once the index has a dimension d, every add_documents call
\* with rows of another width and every search call with a query of another
\* width ends with an error and leaves stored vectors and documents unchanged
\* (result.arg holds the width of the rows of an add call and the query of a
\* search call).
C4_DimensionStep ==
  /\ (index.present /\ result'.op = "add" /\ result'.arg # <<index.d>>)
     => (result'.status \in Errors /\ index' = index /\ documents' = documents)
  /\ (index.present /\ result'.op = "search" /\ Len(result'.arg) # index.d)
     => (result'.status \in Errors /\ index' = index /\ documents' = documents)

C4_DimensionContract == [][C4_DimensionStep]_vars

\* C4 (amended): as above for add_documents; a search call with a query of
\* another width ends with an error when the store holds at least one document,
\* and returns the empty list without an error when the document list is empty.
C4_AmendedStep ==
  /\ (index.present /\ result'.op = "add" /\ result'.arg # <<index.d>>)
     => (result'.status \in Errors /\ index' = index /\ documents' = documents)
  /\ (index.present /\ result'.op = "search" /\ Len(result'.arg) # index.d)
     => /\ index' = index /\ documents' = documents
        /\ IF Len(documents) >= 1
           THEN result'.status \in Errors /\ result'.value = <<>>
           ELSE result'.status = "ok" /\ result'.value = <<>>

C4_DimensionAmended == [][C4_AmendedStep]_vars

\* a query of the wrong width was refused by a store that holds documents
C4_Witness ==
  /\ result.op = "search"
  /\ index.present
  /\ Len(documents) >= 1
  /\ Len(result.arg) # index.d
  /\ result.status = "AssertionError"

\* C5: on a store of n >= 1 aligned documents, search(query, k) with k >= 1
\* returns exactly min(k, n) pairs, each the text of a distinct stored position
\* with similarity 1 / (1 + distance), by non-increasing similarity, the
\* nearest stored vector first.
C5_SearchResult ==
  (result.op = "search" /\ Aligned /\ Len(documents) >= 1 /\ result.k >= 1
     /\ Len(result.arg) = index.d) =>
    LET v == result.value
        q == result.arg
        dist(i) == Dist(q, index.vecs[v[i].idx + 1])
    IN /\ result.status = "ok"
       /\ Len(v) = Min(result.k, Len(documents))
       /\ \A i \in 1..Len(v) :
            /\ v[i].idx \in 0..(Len(documents) - 1)
            /\ v[i].text = documents[v[i].idx + 1]
            /\ v[i].sim[1] * (1 + dist(i)) = v[i].sim[2]
       /\ \A i, j \in 1..Len(v) : i < j =>
            /\ v[i].idx # v[j].idx
            /\ v[i].sim[1] * v[j].sim[2] >= v[j].sim[1] * v[i].sim[2]
       /\ \A p \in 1..Len(documents) : dist(1) <= Dist(q, index.vecs[p])

\* two results came back for k above n = 2, the farther one second
C5_Witness ==
  /\ result.op = "search"
  /\ result.status = "ok"
  /\ Len(documents) = 2
  /\ result.k = 3
  /\ Len(result.value) = 2
  /\ result.value[1].sim # result.value[2].sim

\* C6: search on a store without an index object, or with an empty document
\* list, returns the empty list and does not raise, whatever the query and top_k.
C6_EmptySearch ==
  (result.op = "search" /\ (~index.present \/ Len(documents) = 0)) =>
    (result.status = "ok" /\ result.value = <<>>)

\* a store created with a dimension and nothing added was searched with a
\* query of another width
C6_Witness ==
  /\ result.op = "search"
  /\ index.present
  /\ documents = <<>>
  /\ Len(result.arg) # index.d
  /\ result.status = "ok"

PairwiseDistinct(vecs) == \A i, j \in 1..Len(vecs) : i # j => vecs[i] # vecs[j]

\* C7: when the stored vectors are pairwise distinct, search with k = 1 and a
\* query equal to the vector at position j returns exactly the document at
\* position j with distance 0 (similarity 1), strictly above every other
\* stored document's similarity.
C7_ExactMatch ==
  (result.op = "search" /\ Aligned /\ result.k = 1 /\ PairwiseDistinct(index.vecs)) =>
    \A j \in 1..Len(documents) :
      index.vecs[j] = [c \in 1..Len(result.arg) |-> Float32(result.arg[c])] =>
        /\ result.status = "ok"
        /\ Len(result.value) = 1
        /\ result.value[1].idx = j - 1
        /\ result.value[1].text = documents[j]
        /\ result.value[1].sim[1] = result.value[1].sim[2]
        /\ \A p \in 1..Len(documents) : p # j =>
             result.value[1].sim[1] * (1 + Dist(result.arg, index.vecs[p])) > result.value[1].sim[2]

\* the query was the second of two distinct stored vectors
C7_Witness ==
  /\ result.op = "search"
  /\ result.k = 1
  /\ Len(documents) = 2
  /\ Aligned
  /\ index.vecs[1] # index.vecs[2]
  /\ result.arg = index.vecs[2]
  /\ result.status = "ok"
  /\ documents[1] # documents[2]

\* C8: SimpleEmbedder has a two-state lifecycle: embed on an untrained
\* embedder raises and returns no vectors; fit with an empty corpus raises and
\* leaves the embedder as it was (untrained if it was untrained); only a fit
\* that succeeded makes it trained; once trained it never becomes untrained.
C8_Step ==
  /\ (~fitted' /\ embedded'.op \in {"embed", "hybrid_embed"} /\ embedded'.path = "simple")
       => (embedded'.status = "RuntimeError" /\ embedded'.rows = <<>>)
  /\ (embedded'.op = "fit" /\ embedded'.texts = <<>>)
       => (embedded'.status = "ValueError" /\ fitted' = fitted)
  /\ (~fitted /\ fitted') => (embedded'.op = "fit" /\ embedded'.status = "ok")
  /\ (embedded'.op = "fit" /\ embedded'.status = "ok") => fitted'
  /\ fitted => fitted'

C8_Lifecycle == [][C8_Step]_vars

\* an untrained embedder was given an empty corpus and is still untrained
C8_Witness ==
  /\ ~fitted
  /\ embedded.op = "fit"
  /\ embedded.texts = <<>>
  /\ embedded.status = "ValueError"

\* C9: with the local embedder fit, whenever the remote embedder fails on the
\* call or was never constructed, HybridEmbedder.embed does not raise and
\* returns the local embedder's matrix for the same texts, one row per text.
C9_Fallback ==
  (embedded.op = "hybrid_embed" /\ fitted /\ embedded.api \in {"absent", "failed"}) =>
    /\ embedded.status = "ok"
    /\ embedded.path = "simple"
    /\ Len(embedded.rows) = Len(embedded.texts)
    /\ \A i \in 1..Len(embedded.rows) :
         /\ Len(embedded.rows[i]) = Len(vocabulary)
         /\ \A j \in 1..Len(vocabulary) :
              embedded.rows[i][j] = Count(embedded.texts[i], vocabulary[j])

\* the remote call failed and the fit embedder answered with a row that has
\* a term of the text in it
C9_Witness ==
  /\ embedded.op = "hybrid_embed"
  /\ fitted
  /\ embedded.api = "failed"
  /\ embedded.status = "ok"
  /\ Len(embedded.rows) = 1
  /\ \E j \in 1..Len(vocabulary) : embedded.rows[1][j] > 0

\* C10: two calls of embed on the same HybridEmbedder, one served by the
\* remote embedder and one by the local fallback, return matrices of the same
\* width.
C10_SameWidth ==
  (served.api # 0 /\ served.simple # 0) => served.api = served.simple

\* the chunks of a run in order, each with the file it came from
RECURSIVE ExpectedCorpus(_)
ExpectedCorpus(prod) ==
  IF prod = <<>> THEN <<>>
  ELSE [i \in 1..Len(Head(prod).chunks) |-> [file |-> Head(prod).file, text |-> Head(prod).chunks[i]]]
       \o ExpectedCorpus(Tail(prod))

Terminal == pc \in {"Persisted", "Returned", "Raised"}

\* C3: after a process_directory run that produced at least one chunk and
\* persisted, the index file, the document file and the metadata file have the
\* same length, and for every i the vector, the text and the metadata at
\* position i are those of the i-th chunk of the run, with metadata[i].chunk_index
\* = i counted across all files; after any run the three files, when present,
\* have one length.
C3_ArtifactsAligned ==
  /\ Terminal =>
       /\ indexFiles[IndexPath].exists = docFiles[DocsPath].exists
       /\ indexFiles[IndexPath].exists = metaFiles[MetadataPath].exists
       /\ indexFiles[IndexPath].ntotal = Len(docFiles[DocsPath].docs)
       /\ indexFiles[IndexPath].ntotal = Len(metaFiles[MetadataPath].meta)
  /\ pc = "Persisted" =>
       LET ix == ReadIndex(indexFiles[IndexPath])
           docs == docFiles[DocsPath].docs
           meta == metaFiles[MetadataPath].meta
           exp == ExpectedCorpus(produced)
       IN /\ Len(exp) >= 1
          /\ Ntotal(ix) = Len(exp)
          /\ Len(docs) = Len(exp)
          /\ Len(meta) = Len(exp)
          /\ \A i \in 1..Len(exp) :
               /\ docs[i] = exp[i].text
               /\ meta[i].source_file = exp[i].file
               /\ meta[i].file_path = exp[i].file
               /\ meta[i].chunk_index = i - 1
               /\ ix.vecs[i] = IF embedded.path = "api" THEN ApiVector(exp[i].text)
                               ELSE [j \in 1..Len(vocabulary) |-> Count(exp[i].text, vocabulary[j])]

\* a run over two files persisted three chunks, the second file's chunk after
\* the first file's two, replacing an earlier build
C3_Witness ==
  /\ pc = "Persisted"
  /\ Len(produced) = 2
  /\ Len(produced[1].chunks) = 2
  /\ Len(metaFiles[MetadataPath].meta) = 3
  /\ metaFiles[MetadataPath].meta[3].source_file = 2
  /\ metaFiles[MetadataPath].meta[3].chunk_index = 2
  /\ docFiles[DocsPath].docs[1] # docFiles[DocsPath].docs[3]

\* the windows C11 describes: text[j*(size-overlap) : j*(size-overlap)+size] for
\* every j >= 0 whose start is inside the text
ClaimedWindows(t, size, overlap) ==
  LET step == size - overlap
      n == (Len(t) + step - 1) \div step
  IN [j \in 1..n |-> Slice(t, (j - 1) * step, (j - 1) * step + size)]

\* C11: for a text without whitespace, chunk returns exactly the windows
\* text[j*(size-overlap) : j*(size-overlap)+size], j = 0, 1, 2, ..., whose start
\* is inside the text, each starting size - overlap after the previous one.
C11_ConsecutiveWindows ==
  (chunk_pc = "Done" /\ \A i \in 1..Len(text) : ~IsSpace(text[i]))
    => chunks = ClaimedWindows(text, chunk_size, chunk_overlap)

\* the turns of the loop that emitted a chunk
RECURSIVE Emitted(_)
Emitted(ws) ==
  IF ws = <<>> THEN <<>>
  ELSE (IF Head(ws).chunk # <<>> THEN <<Head(ws)>> ELSE <<>>) \o Emitted(Tail(ws))

\* C12: for a non-empty text the emitted chunks cover the text without gaps:
\* every position that holds a non-whitespace character lies inside an emitted
\* chunk (a piece of the text at a known position), and the chunks come in text
\* order.
C12_Coverage ==
  (chunk_pc = "Done" /\ text # <<>>)
    => LET em == Emitted(windows)
       IN /\ chunks = [i \in 1..Len(em) |-> em[i].chunk]
          /\ \A i \in 1..Len(em) :
               em[i].chunk = Slice(text, em[i].from, em[i].from + Len(em[i].chunk))
          /\ \A i \in 1..(Len(em) - 1) :
               em[i].start < em[i + 1].start /\ em[i].from <= em[i + 1].from
          /\ \A pos \in 0..(Len(text) - 1) :
               ~IsSpace(text[pos + 1])
                 => \E i \in 1..Len(em) :
                      em[i].from <= pos /\ pos < em[i].from + Len(em[i].chunk)

\* a text with a blank in it was cut, with overlap, into more than one chunk,
\* one of them trimmed
C12_Witness ==
  /\ chunk_pc = "Done"
  /\ chunk_overlap >= 1
  /\ Len(chunks) >= 2
  /\ \E i \in 1..Len(text) : IsSpace(text[i])
  /\ \E i \in 1..Len(windows) :
       /\ windows[i].chunk # <<>>
       /\ Len(windows[i].chunk) < windows[i].end - windows[i].start

\* C13: every chunk call on a chunker the constructor accepted returns: the
\* window start grows on every turn of the loop, the loop takes at most
\* len(text) turns, and the call reaches its return.
C13_Terminates ==
  /\ [][(chunk_pc = "Loop" /\ chunk_pc' = "Loop") => start' > start]_vars
  /\ [](Len(windows) <= Len(text))
  /\ [](chunk_pc = "Loop" => <>(chunk_pc = "Done"))
  /\ [](chunk_pc \in {"Ready", "Loop", "Done"}
          => FixedInitStatus(chunk_size, chunk_overlap) = "ok")

\* a call with overlap = size - 1 >= 1 on a text of two or more characters
\* returned
C13_Witness ==
  /\ chunk_pc = "Done"
  /\ chunk_overlap = chunk_size - 1
  /\ chunk_overlap >= 1
  /\ Len(text) >= 2
  /\ Len(windows) >= 1

\* C14: when no sentence of the text (nor of any of its paragraphs) is longer
\* than max_chunk_size, no emitted chunk is longer than max_chunk_size.
C14_MaxSize ==
  (/\ chunk_pc = "Done"
   /\ \A i \in 1..Len(SplitSentences(text)) : Len(SplitSentences(text)[i]) <= max_chunk_size
   /\ \A p \in 1..Len(SplitParagraphs(text)) :
        LET ss == SplitSentences(Strip(SplitParagraphs(text)[p]))
        IN \A i \in 1..Len(ss) : Len(ss[i]) <= max_chunk_size)
    => \A c \in 1..Len(chunks) : Len(chunks[c]) <= max_chunk_size

\* C15: whenever chunk emits more than one chunk, every emitted chunk has at
\* least min_chunk_size characters.
C15_MinSize ==
  (chunk_pc = "Done" /\ Len(chunks) > 1)
    => \A c \in 1..Len(chunks) : Len(chunks[c]) >= min_chunk_size

\* one turn of the loop over the files: the run stays in the loop and goes to
\* the next file, and the file either failed (failed_files + 1, no chunk, no
\* metadata) or gave chunks (processed_files + 1, its chunks and as many
\* metadata entries appended)
C16_Step ==
  (pc = "ParsingChunking" /\ fileIdx <= files_to_process)
    => /\ pc' = "ParsingChunking"
       /\ fileIdx' = fileIdx + 1
       /\ \/ /\ stats'.failed_files = stats.failed_files + 1
             /\ stats'.processed_files = stats.processed_files
             /\ all_chunks' = all_chunks
             /\ all_metadata' = all_metadata
          \/ /\ stats'.processed_files = stats.processed_files + 1
             /\ stats'.failed_files = stats.failed_files
             /\ Len(all_chunks') > Len(all_chunks)
             /\ SubSeq(all_chunks', 1, Len(all_chunks)) = all_chunks
             /\ Len(all_metadata') - Len(all_metadata) = Len(all_chunks') - Len(all_chunks)
             /\ \A i \in (Len(all_metadata) + 1)..Len(all_metadata') :
                  all_metadata'[i].source_file = fileIdx

\* C16: in the loop over the files a file without text or without chunks is
\* counted in failed_files and adds no chunk and no metadata, no file makes the
\* run raise, the next files are still processed, and a returned statistics
\* record has processed_files + failed_files = total_files.
C16_PerFileFailures ==
  /\ [][C16_Step]_vars
  /\ [](pc = "ParsingChunking"
          => stats.processed_files + stats.failed_files = fileIdx - 1)
  /\ [](pc = "Raised" => fileIdx > files_to_process /\ all_chunks # <<>>)
  /\ [](retval.kind = "stats"
          => retval.stats.processed_files + retval.stats.failed_files
               = retval.stats.total_files)

\* a run returned its statistics after a first file that failed and a second
\* that gave chunks
C16_Witness ==
  /\ pc = "Persisted"
  /\ retval.kind = "stats"
  /\ retval.stats.failed_files = 1
  /\ retval.stats.processed_files = 1
  /\ Len(produced) = 1
  /\ produced[1].file = 2
  /\ \A i \in 1..Len(all_metadata) : all_metadata[i].source_file = 2

\* C17: whatever process_directory returns holds the keys total_files,
\* processed_files, failed_files and total_chunks.
C17_StatsRecord ==
  pc \in {"Returned", "Persisted"}
    => {"total_files", "processed_files", "failed_files", "total_chunks"}
         \subseteq RetvalKeys(retval)

\* C18: an OnlineRetriever built with a trainable embedder ('simple' or
\* 'hybrid') over an existing index and document list is built without error
\* and with its embedder fit, and no search on it ends with the
\* untrained-embedder error.
C18_TrainableReady ==
  (retriever.status # "none" /\ retriever.embedder_type \in {"simple", "hybrid"})
    => /\ retriever.status = "ok"
       /\ fitted
       /\ results.status # "RuntimeError"

\* the first 1-based position of the document text x
FirstPosition(x) ==
  CHOOSE j \in 1..Len(documents) :
    documents[j] = x /\ \A h \in 1..(j - 1) : documents[h] # x

\* C19: a result of search with metadata loaded carries metadata[j], j the
\* first position whose document text equals the returned text: the matched
\* chunk's own metadata when the texts are pairwise distinct, the earlier
\* chunk's when the match is a later chunk of the same text.
C19_MetadataByContent ==
  (results.op = "search" /\ results.status = "ok" /\ results.with_metadata /\ metadata # <<>>)
    => \A i \in 1..Len(results.value) :
         LET e == results.value[i]
             j == FirstPosition(e.document)
         IN /\ documents[e.idx + 1] = e.document
            /\ e.has_metadata <=> j <= Len(metadata)
            /\ e.has_metadata => e.metadata = metadata[j]
            /\ (\A a, b \in 1..Len(documents) : a # b => documents[a] # documents[b])
                 => j = e.idx + 1
            /\ (e.idx + 1 > j /\ e.has_metadata) => e.metadata.chunk_index = j - 1

\* a hit on the second of two chunks of the same text came back with the
\* metadata of the first
C19_Witness ==
  /\ results.op = "search"
  /\ results.status = "ok"
  /\ results.with_metadata
  /\ \E i \in 1..Len(results.value) :
       LET e == results.value[i]
       IN /\ e.has_metadata
          /\ e.idx = 1
          /\ documents[1] = documents[2]
          /\ e.metadata = metadata[1]
          /\ e.metadata # metadata[2]

\* C20: search_by_source(query, source_file, k) asks search for 5*k results and
\* returns the first k of them whose metadata.source_file is source_file, in
\* the same order: at most k, fewer when fewer of the 5*k match.
C20_BySource ==
  (results.op = "search_by_source" /\ results.status = "ok")
    => LET all == results.all
           val == results.value
           matching == {h \in 1..Len(all) :
                          all[h].has_metadata /\ all[h].metadata.source_file = results.source}
       IN /\ Len(val) <= results.k
          /\ \A i \in 1..Len(val) :
               val[i].has_metadata /\ val[i].metadata.source_file = results.source
          /\ (~results.query.blank /\ results.k >= 1 /\ Aligned /\ Len(documents) >= 1)
               => Len(all) = Min(5 * results.k, Len(documents))
          /\ Len(val) = Min(results.k, Cardinality(matching))
          /\ \A i \in 1..Len(val) :
               \E h \in matching : val[i] = all[h] /\ Cardinality({g \in matching : g <= h}) = i

\* asked for two results of a source, search_by_source returned the only one
\* of the two stored chunks that comes from it, the second of search's list
C20_Witness ==
  /\ results.op = "search_by_source"
  /\ results.status = "ok"
  /\ results.k = 2
  /\ Len(results.all) = 2
  /\ Len(results.value) = 1
  /\ results.value[1] = results.all[2]

\* C30: a load that raises FileNotFoundError leaves index, dimension and
\* documents as they were, so a store aligned before it is aligned after it.
C30_Step ==
  (result'.op = "load" /\ result'.status = "FileNotFoundError")
    => /\ index' = index
       /\ dimension' = dimension
       /\ documents' = documents
       /\ Aligned => Aligned'

C30_FailedLoadFrame == [][C30_Step]_vars

\* C21: a PDF whose remote extraction failed (an HTTP error, a malformed
\* answer, a job reported failed) is still parsed with the local parser:
\* whenever parse_document returned with MINERU_API_KEY set and a remote
\* request failed, the local parser was run on the file. Without the key, or
\* with a remote parser that cannot be built, the local parser is the one used.
C21_LocalFallback ==
  /\ (parse_pc = "Returned" /\ job.failure # "none") => job.local
  /\ (parse_pc = "Returned" /\ ~mineru_api_key) => job.local

States(items) == {items[i] : i \in 1..Len(items)}

\* C25, the state part: requests are made in the order slot, upload, poll,
\* download; the archive is downloaded only after a status answer listed the
\* file as done; a text is returned only after that download; a failed or
\* malformed request and a job reported failed give the empty string.
C25_Order ==
  /\ job.uploaded => job.slot /\ job.failure # "slot"
  /\ job.polls > 0 => job.uploaded /\ job.failure \notin {"slot", "upload"}
  /\ job.downloaded => job.polls > 0 /\ "done" \in States(job.answer)
  /\ (parse_pc = "Returned" /\ pdf_parser = "MinerUPdfParser") =>
       /\ parsed[Len(parsed)] # "none"
       /\ parsed[Len(parsed)] = "text" => job.downloaded /\ job.failure = "none"
       /\ job.failure # "none" => parsed[Len(parsed)] = "empty"
       /\ "failed" \in States(job.answer) /\ "done" \notin States(job.answer)
            => parsed[Len(parsed)] = "empty"
       /\ job.failure = "none" => job.downloaded

\* C25, the step part: a status answer that lists the file in no terminal
\* state, or does not list it, leaves parse polling and returns nothing
C25_Step ==
  (parse_pc = "Polling" /\ job'.answer # <<"error">>
     /\ States(job'.answer) \cap {"done", "failed"} = {})
    => parse_pc' = "Polling" /\ parsed' = parsed

C25_PollProtocol == []C25_Order /\ [][C25_Step]_vars

\* a text came back after at least one answer without terminal state
C25_Witness ==
  /\ parse_pc = "Returned"
  /\ pdf_parser = "MinerUPdfParser"
  /\ parsed[Len(parsed)] = "text"
  /\ job.polls >= 2

\* the poll loop was still polling after MaxPolls answers
C25_StillPolling ==
  parse_pc = "Polling" /\ job.polls = MaxPolls /\ States(job.answer) \subseteq {"pending", "running"}

\* C22: search returns at most top_k results for every top_k >= 0; with a
\* doc_type every result is a document of that type; the scores do not
\* increase along the list; the list is empty when the knowledge base is
\* empty or holds no document of that type.
C22_SearchContract ==
  kresults.op = "search" =>
    LET value == kresults.value
    IN /\ Len(value) <= kresults.top_k
       /\ kresults.doc_type # "" =>
            \A i \in 1..Len(value) : kr_documents[value[i].doc].type = kresults.doc_type
       /\ \A i \in 1..Len(value) - 1 : value[i].score >= value[i + 1].score
       /\ (\A d \in 1..Len(kr_documents) :
             kresults.doc_type # "" /\ kr_documents[d].type # kresults.doc_type)
            => value = <<>>

\* C27: no query changes an entry of the knowledge base or a document unit:
\* the knowledge base equals what was loaded, and the dicts of the first
\* query's result are as they were returned.
C27_QueriesChangeNothing ==
  /\ kb = kb_loaded
  /\ kr_documents = GetAllDocuments(kb_loaded)
  /\ earlier.set => Held(kb, kr_documents, earlier.value) = earlier.returned

\* C23: a failure of process_directory that is no configuration error never
\* leaves the call as an exception, and the record returned for a failure
\* carries a success flag.
C23_FailuresReported ==
  /\ pc # "Raised"
  /\ (pc = "Returned" /\ retval.kind = "error") => "success" \in RetvalKeys(retval)

\* the position of a state of process_directory in the order of the run; a
\* return and an exception end it
Rank(state) ==
  CASE state = "Scanning" -> 1
    [] state = "ParsingChunking" -> 2
    [] state = "Fitting" -> 3
    [] state = "Embedding" -> 4
    [] state = "Indexing" -> 5
    [] state = "Saving" -> 6
    [] state = "SavingMetadata" -> 7
    [] state = "Persisted" -> 8
    [] OTHER -> 9

OutputFiles == <<indexFiles, docFiles, metaFiles>>

\* C28, the step part: the run never goes back and skips no state on its way
\* (Scanning, ParsingChunking, Embedding with its fit first, Indexing, the
\* writes, Persisted); no file is parsed once the fit started; a trainable
\* embedder was fit by the call before the corpus is embedded; the store is
\* created only by the step after an embed call that returned, and holds that
\* call's rows only; a file is written only when the store holds the whole
\* batch; a run without chunks returns from ParsingChunking.
C28_Step ==
  /\ Rank(pc') >= Rank(pc)
  /\ pc' = "ParsingChunking" => pc \in {"Scanning", "ParsingChunking"}
  /\ pc' = "Fitting" => pc = "ParsingChunking"
  /\ pc' = "Embedding" =>
       \/ pc = "Fitting" /\ embedded'.op = "fit" /\ embedded'.status = "ok"
       \/ pc = "ParsingChunking" /\ embedder_type \notin {"simple", "hybrid"}
  /\ pc' = "Indexing" => pc = "Embedding" /\ embedded'.op = "corpus_embed" /\ embedded'.status = "ok"
                           /\ embedded'.texts = all_chunks
  /\ pc' = "Saving" => pc = "Indexing"
  /\ pc' = "SavingMetadata" => pc = "Saving"
  /\ pc' = "Persisted" => pc = "SavingMetadata"
  /\ Rank(pc) >= 3 => <<all_chunks, all_metadata, fileIdx, produced>>' = <<all_chunks, all_metadata, fileIdx, produced>>
  /\ <<index, dimension, documents>>' # <<index, dimension, documents>> =>
       /\ pc = "Indexing"
       /\ embedded.op = "corpus_embed" /\ embedded.status = "ok"
       /\ pc' = "Saving" => index'.vecs = AsFloat32(embedded.rows) /\ documents' = all_chunks
  /\ OutputFiles' # OutputFiles =>
       /\ pc \in {"Saving", "SavingMetadata"}
       /\ Ntotal(index) = Len(all_chunks)
       /\ documents = all_chunks
  /\ (pc = "ParsingChunking" /\ pc' # pc /\ all_chunks = <<>>) => pc' = "Returned"

\* C28, the state part: before Indexing, and after a return without chunks,
\* there is no vector store; a persisted run wrote its three files
C28_State ==
  /\ Rank(pc) <= 4 \/ pc = "Returned" => index = NoIndex /\ dimension = NoDimension /\ documents = <<>>
  /\ pc = "Returned" => all_chunks = <<>>
  /\ pc = "Persisted" =>
       /\ IndexFileExists(IndexPath) /\ DocFileExists(DocsPath) /\ metaFiles[MetadataPath].exists
       /\ docFiles[DocsPath].docs = all_chunks
       /\ metaFiles[MetadataPath].meta = all_metadata

C28_RunOrder == []C28_State /\ [][C28_Step]_vars

\* a run of a trainable embedder over two files that was persisted
C28_Witness ==
  /\ pc = "Persisted"
  /\ embedder_type = "simple"
  /\ Len(produced) = 2

\* a run without chunks returned its statistics
C28_ZeroChunks ==
  /\ pc = "Returned"
  /\ retval.kind = "stats"
  /\ files_to_process > 0

\* the characters of s that are not whitespace, in order
NonSpace(s) == SelectSeq(s, LAMBDA c : ~IsSpace(c))

RECURSIVE ConcatAll(_)
ConcatAll(ss) == IF ss = <<>> THEN <<>> ELSE Head(ss) \o ConcatAll(Tail(ss))

IsSubstring(a, b) == \E i \in 0..(Len(b) - Len(a)) : SubSeq(b, i + 1, i + Len(a)) = a

\* the chunks and the buffer chunk holds when its loop over the paragraphs ends
LoopEnd ==
  ParagraphLoop(SplitParagraphs(text), [chunks |-> <<>>, current_chunk |-> <<>>],
                max_chunk_size, min_chunk_size)

\* C29: chunk drops no content. The characters of the chunks that are not
\* whitespace are those of the text, in order; every sentence of every
\* non-empty paragraph is inside one chunk; a last buffer shorter than
\* min_chunk_size is appended to the last chunk, or is the only chunk; a text
\* that is not blank gives a chunk and a blank or empty text gives none.
C29_NoContentDropped ==
  chunk_pc = "Done" =>
    /\ NonSpace(ConcatAll(chunks)) = NonSpace(text)
    /\ \A p \in 1..Len(SplitParagraphs(text)) :
         LET ss == SplitSentences(Strip(SplitParagraphs(text)[p]))
         IN \A i \in 1..Len(ss) : \E c \in 1..Len(chunks) : IsSubstring(Strip(ss[i]), chunks[c])
    /\ Strip(text) # <<>> =>
         /\ chunks # <<>>
         /\ (LoopEnd.current_chunk # <<>> /\ Len(LoopEnd.current_chunk) < min_chunk_size) =>
              IF LoopEnd.chunks # <<>>
              THEN /\ Len(chunks) = Len(LoopEnd.chunks)
                   /\ chunks[Len(chunks)] =
                        LoopEnd.chunks[Len(chunks)] \o ParaBreak \o LoopEnd.current_chunk
              ELSE chunks = <<LoopEnd.current_chunk>>
    /\ Strip(text) = <<>> => chunks = <<>>

\* a last buffer shorter than min_chunk_size was appended to the chunk before
C29_Witness ==
  /\ chunk_pc = "Done"
  /\ Strip(text) # <<>>
  /\ LoopEnd.chunks # <<>>
  /\ LoopEnd.current_chunk # <<>>
  /\ Len(LoopEnd.current_chunk) < min_chunk_size
  /\ Len(SplitParagraphs(text)) >= 2

\* what a reader holds is of one build
ReaderConsistent ==
  /\ Ntotal(reader.index) = Len(reader.documents)
  /\ Len(reader.metadata) = Len(reader.documents)

\* C26: the three files are written one after the other, so a retriever
\* whose load overlaps the writes of a rebuild may hold parts of two builds;
\* a retriever that loaded before the first write or began after the last one
\* holds one build, with as many vectors as documents and metadata entries.
C26_MixedOnlyWhilePersisting ==
  (reader.pc = "Loaded" /\ reader.status # "FileNotFoundError"
     /\ (reader.ended = "Saving" \/ reader.began = "Persisted"))
    => /\ ReaderConsistent
       /\ reader.ended = "Saving" => reader.documents = << <<1>> >>
       /\ reader.began = "Persisted" =>
            /\ reader.index = index
            /\ reader.documents = all_chunks
            /\ reader.metadata = all_metadata

\* a retriever built while the rebuild was persisting holds the index of the
\* new build and the documents and metadata of the previous one, and the
\* numbers of vectors and of documents differ
C26_Witness ==
  /\ reader.pc = "Loaded"
  /\ reader.began = "SavingDocuments"
  /\ reader.index = index
  /\ reader.documents = << <<1>> >>
  /\ Len(reader.metadata) = 1
  /\ Ntotal(reader.index) # Len(reader.documents)

\* the retriever was built with the embedder configuration of the offline run
SameConfiguration ==
  /\ retriever.embedder_type = embedder_type
  /\ embedder_type = "api" => api_embedder

ScenarioSearch ==
  /\ results.op = "search"
  /\ ~results.query.blank
  /\ results.query.tokens = <<1, 2>>
  /\ results.fetched = 1
  /\ results.with_metadata
  /\ results.status # "RuntimeError"

\* is the fraction a greater than the fraction b
FractionGreater(a, b) == a[1] * b[2] > b[1] * a[2]

\* C24: after the offline run over A = 'alpha beta gamma' and B = 'delta
\* epsilon zeta', a retriever with the same embedder configuration is built,
\* and its search for 'alpha beta' with top_k = 1 returns the chunk of A, with
\* source_file A, and a similarity greater than the one the chunk of B has
\* for the query vector.
C24_EndToEnd ==
  /\ (retriever.status # "none" /\ SameConfiguration) => retriever.status = "ok"
  /\ (ScenarioSearch /\ SameConfiguration) =>
       /\ results.status = "ok"
       /\ Len(results.value) = 1
       /\ results.value[1].document = ScenarioA
       /\ results.value[1].has_metadata
       /\ results.value[1].metadata.source_file = 1
       /\ FractionGreater(results.value[1].score, Similarity(Dist(result.arg, index.vecs[2])))

\* the scenario with the TF-IDF embedder on both sides
C24_SimpleScenario ==
  /\ ScenarioSearch
  /\ retriever.embedder_type = "simple"
  /\ embedder_type = "simple"
  /\ Len(results.value) = 1
====
